---- MODULE Spec2Model ----
(***************************************************************************)
(* Verification model of the voxel engine's parallel mesh builder          *)
(* (voxel-engine/src/render/mesh_builder.rs): the builder thread, the      *)
(* worker threads, the command channel and the result channel; and of the  *)
(* chunk handle (voxel-engine/src/topo/chunk_ref.rs): the threads that     *)
(* open read and write sessions on a chunk through a ChunkRef; of the      *)
(* neighbor sampler (voxel-engine/src/render/meshing/mod.rs): the          *)
(* NeighborsBuilder and the Neighbors bundle it builds; and of the quads   *)
(* added to a chunk mesh (voxel-engine/src/render/quad/mod.rs).            *)
(*                                                                         *)
(* Threads unwind on panic (the default profile): a panicking thread drops *)
(* what it owns, its channel endpoints included, and the rest go on.       *)
(***************************************************************************)
EXTENDS Integers, Sequences, FiniteSets, TLC

(***************************************************************************)
(* Bounds of the model.                                                    *)
(***************************************************************************)
\* number of worker threads (available_parallelism() on the real machine)
NumWorkers == 2
\* number of Build commands queued in one behaviour
MaxTasks == 2

\* number of in-bounds sets made in one behaviour
MaxSets == 2

\* number of set_neighbor calls made on one NeighborsBuilder
MaxNeighbors == 1

\* number of quads added to one mesh
MaxQuads == 2

\* the side N of the N x N face plane the greedy mesher merges
PlaneSize == 2

Workers == 1..NumWorkers
\* the chunks callers hold a ChunkRef to; the builder treats every chunk alike,
\* and the model follows one
Chunks == {"chunk"}
Tasks == 1..MaxTasks

\* the value of an Option that is None, and the "no result" of a call
None == "None"
\* a worker holding no command
NoCmd == [kind |-> "None", id |-> 0, chunk_ref |-> None, task |-> 0]
\* the outcome of unique_task_id when its loop falls through to panic!
NoTaskId == -1

VARIABLES
    \* ---- ParallelMeshBuilder and the two channels
    pending_tasks,  \* the set of MeshingTaskId (u32 values)
    cmd_queue,      \* the command channel: commands sent and not yet received
    mesh_queue,     \* the result channel: outputs sent and not yet received
    builder_pc,     \* where the thread owning the builder is
    meshes,         \* finished_meshes' local Vec<ChunkMesh>
    shutdown_sent,  \* shutdown's first loop: Shutdown commands sent so far
    join_idx,       \* shutdown's second loop: the worker joined next
    \* ---- the worker threads
    worker_pc,      \* per worker: recv, build, send, exited or panicked
    worker_cmd,     \* per worker: the BuildMeshCommand it holds (`data`)
    \* ---- the world
    chunk_alive,    \* chunks whose Arc<Chunk> still exists
    \* ---- history (no code reads these)
    task_count,     \* Build commands queued so far; the n-th is task n
    last_call,      \* the builder call that ended last, its input and result
    fm_pre,         \* pending_tasks when the running finished_meshes began
    fm_taken,       \* the outputs the running finished_meshes has received
    picks,          \* per task: how often a worker received its command
    picked_by,      \* per task: the workers that received its command
    sent_by,        \* per task: the workers that sent a result for it
    sends,          \* per task: how many results were sent for it
    failed_build,   \* per worker: the build that failed in it, its id, and how
    shutdowns_recv, \* per worker: Shutdown commands received
    at_shutdown,    \* tasks a worker held when shutdown was called
    \* ---- the chunks, behind their ChunkRef
    changed,        \* per chunk: the AtomicBool of the dirty flag
    voxels,         \* per chunk: chunk.voxels, position -> VoxelId
    models,         \* per chunk: chunk.models, position -> Option<BlockModel>
    voxels_held,    \* per chunk and thread: the access it holds on chunk.voxels
    models_held,    \* per chunk and thread: the access it holds on chunk.models
    \* ---- the threads that use a ChunkRef
    thread_pc,      \* per thread: where it is in with_access / with_read_access
    thread_op,      \* per thread: the ChunkRef method it called last
    thread_chunk,   \* per thread: the chunk of the ChunkRef it called
    thread_set,     \* per thread: the set of its session made last, or in progress
                    \* (pos, data), and what the cell held before it (history)
    thread_ret,     \* per thread: what the call that ended last returned
    \* ---- history (no code reads these)
    set_count,      \* in-bounds sets begun so far
    last_write,     \* per chunk and position: the data of the set that wrote its id last
    writers,        \* per chunk and position: the threads that completed a set of it
    \* ---- the neighbor sampler: NeighborsBuilder, then Neighbors
    nb_pc,          \* "none", "builder" (NeighborsBuilder) or "built" (Neighbors)
    nb_pos,         \* Neighbors::pos, the ChunkPos of the center chunk
    nb_chunks,      \* Neighbors::chunks, slot index -> Option<C>
    nb_default,     \* Neighbors::default
    \* ---- history (no code reads these)
    nb_sets,        \* set_neighbor calls made so far
    nb_call,        \* the call on the builder or the bundle that ended last
    \* ---- the mesh a mesher fills: ChunkMeshAttributes
    mesh_indices,   \* ChunkMeshAttributes::indices
    mesh_normals,   \* ChunkMeshAttributes::normals
    mesh_positions, \* ChunkMeshAttributes::positions
    mesh_misc_data, \* ChunkMeshAttributes::misc_data
    mesh_textures,  \* ChunkMeshAttributes::textures
    \* ---- history (no code reads these)
    mesh_quads,     \* the quads added so far and the idx each was added with
    \* ---- the greedy mesher at work on one face plane
    gr_pc,          \* "none", "scan" (in the raster scan) or "done"
    gr_plane,       \* per cell of the plane: its visibility/texture signature
    gr_cursor,      \* the cell the raster scan is at, counted row by row
    gr_consumed,    \* the cells marked consumed
    gr_quads,       \* the quads produced so far, each with its signature
    \* ---- an observer, its batches and the deferred commands
    ob_pc,          \* "none" before the observer is spawned, then "spawned"
    ob_range,       \* ObserverSettings of the observer: its range, in chunks
    ob_translation, \* Transform::translation of the observer
    ob_last,        \* its LastPosition component, if it has one
    ob_owned,       \* ObserverBatches::owned
    ob_chunks,      \* per batch: ChunkBatch::chunks
    ob_membership,  \* BatchMembership: the pairs of a chunk and a batch it is in
    ob_cmds,        \* Commands: the commands queued and not yet applied
    \* ---- history (no code reads these)
    ob_run,         \* the last run of dispatch_move_events
    ob_update       \* the last run of update_observer_batches

chunk_vars == <<changed, voxels, models, voxels_held, models_held, thread_pc,
                thread_op, thread_chunk, thread_set, thread_ret, set_count, last_write, writers>>

neighbors_vars == <<nb_pc, nb_pos, nb_chunks, nb_default, nb_sets, nb_call>>

quad_vars == <<mesh_indices, mesh_normals, mesh_positions, mesh_misc_data,
               mesh_textures, mesh_quads>>

greedy_vars == <<gr_pc, gr_plane, gr_cursor, gr_consumed, gr_quads>>

observer_vars == <<ob_pc, ob_range, ob_translation, ob_last, ob_owned, ob_chunks, ob_membership, ob_cmds,
                   ob_run, ob_update>>

meshing_vars == <<neighbors_vars, quad_vars, greedy_vars, observer_vars>>

vars == <<pending_tasks, cmd_queue, mesh_queue, builder_pc, meshes,
          shutdown_sent, join_idx, worker_pc, worker_cmd, chunk_alive,
          task_count, last_call, fm_pre, fm_taken, picks,
          picked_by, sent_by, sends, failed_build, shutdowns_recv,
          at_shutdown, chunk_vars, meshing_vars>>

builder_vars == <<pending_tasks, builder_pc, meshes, shutdown_sent, join_idx>>
call_hist == <<task_count, last_call, fm_pre, fm_taken, at_shutdown>>
worker_hist == <<picks, picked_by, sent_by, sends, failed_build, shutdowns_recv>>

(***************************************************************************)
(* Values.                                                                 *)
(***************************************************************************)
\* MesherWorkerCommand::Build(BuildMeshCommand { chunk_ref, adjacency, id });
\* `task` tells two commands with the same id apart
BuildCmd(id, chunk, task) ==
    [kind |-> "Build", id |-> id, chunk_ref |-> chunk, task |-> task]

\* MesherWorkerCommand::Shutdown
ShutdownCmd == [kind |-> "Shutdown", id |-> 0, chunk_ref |-> None, task |-> 0]

\* MesherWorkerOutput { pos, id, output }; the mesh built for task n is n
WorkerOutput(cmd) == [pos |-> cmd.chunk_ref, id |-> cmd.id, output |-> cmd.task]

\* ChunkMesh { pos, mesh }
ChunkMesh(response) == [pos |-> response.pos, mesh |-> response.output]

SetMax(S) == CHOOSE m \in S : \A x \in S : x <= m

Ids(outputs) == {outputs[i].id : i \in DOMAIN outputs}

(***************************************************************************)
(* Chunks: positions and voxel data.                                       *)
(***************************************************************************)
\* the threads that hold a ChunkRef and call it: editors of the world, and
\* readers such as a mesher worker's build
Threads == {"t1", "t2"}

\* Chunk::SIZE, the edge length of a chunk
SIZE == 16

\* the IVec3 positions two threads at work on one chunk pass: the first and
\* the last cell of the chunk, and a position outside it
Positions == {<<0, 0, 0>>, <<SIZE - 1, SIZE - 1, SIZE - 1>>, <<0, SIZE, 0>>}

\* the IVec3 positions a thread alone on a chunk passes: cells at the ends of
\* the axes, and the positions just outside the chunk, below and above, on
\* each axis and on the diagonal
SessionPositions ==
    {<<0, 0, 0>>, <<SIZE - 1, SIZE - 1, SIZE - 1>>, <<0, SIZE - 1, 0>>,
     <<-1, 0, 0>>, <<SIZE, 0, 0>>, <<0, -1, 0>>, <<0, SIZE, 0>>,
     <<0, 0, -1>>, <<SIZE - 1, SIZE - 1, SIZE>>,
     <<-1, -1, -1>>, <<SIZE, SIZE, SIZE>>}

\* Chunk::BOUNDING_BOX, [0, SIZE)^3, contains pos
contains(pos) == \A i \in 1..3 : 0 <= pos[i] /\ pos[i] < SIZE

\* the cells of a chunk that the model follows
Cells == {pos \in Positions \cup SessionPositions : contains(pos)}

\* the VoxelId of a chunk that nobody wrote yet, and the ones threads write
DefaultVoxelId == 0
VoxelIds == {1, 2}

\* the BlockModels threads write; "none" is the None of Option<BlockModel>
BlockModels == {"model"}

\* Option<VoxelModel>: None, and Some(VoxelModel::Block(block_model))
NoModel == [variant |-> "None", block |-> "none"]
Block(block_model) == [variant |-> "Block", block |-> block_model]

\* ChunkVoxelInput { id, model }
ChunkVoxelInput(id, model) == [id |-> id, model |-> model]

\* the ChunkVoxelInputs threads write
Inputs ==
    {ChunkVoxelInput(id, model) :
        id \in VoxelIds, model \in {NoModel} \cup {Block(m) : m \in BlockModels}}

\* ChunkVoxelOutput { id, model }
ChunkVoxelOutput(id, model) == [id |-> id, model |-> model]

\* a thread that made no set in its session
NoSet == <<>>

\* what a call returned, and which call (`of`): a method of ChunkRef ("call"),
\* or the set or get of an access
\* a thread whose last call returned nothing yet
NoRet == [kind |-> "None", of |-> "none", id |-> 0, model |-> "none"]
\* Ok(()) of treat_as_changed, Ok(U) of with_access and with_read_access
OkRet == [kind |-> "Ok", of |-> "call", id |-> 0, model |-> "none"]
\* Err(ChunkRefAccessError::Unloaded)
Unloaded == [kind |-> "Unloaded", of |-> "call", id |-> 0, model |-> "none"]
\* Ok(()) of set
OkSet == [kind |-> "Ok", of |-> "set", id |-> 0, model |-> "none"]
\* Ok(ChunkVoxelOutput { id, model }) of get
OkOutput(output) ==
    [kind |-> "Output", of |-> "get", id |-> output.id, model |-> output.model]
\* Err(ChunkVoxelAccessError::OutOfBounds) of set or get
OutOfBounds(of) == [kind |-> "OutOfBounds", of |-> of, id |-> 0, model |-> "none"]

(***************************************************************************)
(* The neighbor sampler: faces, positions, slots and samples.              *)
(***************************************************************************)
\* Face, the six faces of a voxel
Faces == {"Top", "Bottom", "North", "East", "South", "West"}

\* the face-local coordinates a query is made with: the last cell of the
\* chunk, the halo on both sides of it and two cells beyond
FaceCoords == {-2, -1, SIZE - 1, SIZE, SIZE + 1, SIZE + 2}
\* IVec2 positions of Neighbors::get
FacePositions == FaceCoords \X FaceCoords

\* IVec3 positions in the space of the center chunk that internal_get is
\* called with: the corners of the chunk together with its halo
ChunkspaceCoords == {-1, 0, SIZE - 1, SIZE}
ChunkspacePositions == ChunkspaceCoords \X ChunkspaceCoords \X ChunkspaceCoords

\* the positions in the world of the center chunk of a bundle
CenterPositions == {<<0, 0, 0>>, <<1, 0, 0>>}

\* the 27 offsets in {-1,0,1}^3
Offsets == (-1..1) \X (-1..1) \X (-1..1)
\* the offsets set_neighbor is called with: the 27, and some beyond them
SetNeighborPositions == Offsets \cup {<<2, 0, 0>>, <<-2, 0, 0>>, <<0, 1, 2>>}

\* const MAX: usize = 3, the side of the cube of slots
MAX == 3
\* the indices of [Option<C>; 3 * 3 * 3]
Slots == 0..(MAX * MAX * MAX - 1)

\* ChunkPos::from(IVec3): the chunk position with these coordinates
ChunkPos(v) == [x |-> v[1], y |-> v[2], z |-> v[3]]

\* no slot: a call that read or wrote none
NoSlot == -1

\* the accessor given to set_neighbor(pos, access): the read access of the
\* chunk at that offset from the center chunk
Access(pos) == ToString(pos)

\* the sample an accessor returns for a position: it tells the accessor and
\* the position it was asked for
Sample(access, pos) == [by |-> access, at |-> pos]
\* the default sample of a bundle
DefaultSample == [by |-> "default", at |-> <<>>]

\* results of the calls on the builder and on the bundle
NbNoRet == [kind |-> "None", sample |-> None]
\* Ok(()) of set_neighbor
NbOkUnit == [kind |-> "Ok", sample |-> None]
\* Ok(sample) of get and internal_get
NbOk(sample) == [kind |-> "Ok", sample |-> sample]
\* Err(OutOfBounds) of set_neighbor, Err(NeighborsAccessError::OutOfBounds)
NbOutOfBounds == [kind |-> "OutOfBounds", sample |-> None]
\* Err(NeighborsAccessError::Internal(e)), the error of the accessor
NbInternal == [kind |-> "Internal", sample |-> None]

\* what a lookup did: its result, the slot it read, the position it asked
\* the accessor of that slot for, whether it read the default sample, and the
\* point in chunkspace it looked up (the pos of internal_get)
Lookup(result, slot, forwarded, read_default, point) ==
    [result |-> result, slot |-> slot, forwarded |-> forwarded,
     read_default |-> read_default, point |-> point]
\* a lookup rejected by get, before the position is projected
Rejected == Lookup(NbOutOfBounds, NoSlot, <<>>, FALSE, <<>>)
\* a lookup of a point rejected by internal_get, before any slot is read
RejectedAt(point) == Lookup(NbOutOfBounds, NoSlot, <<>>, FALSE, point)
\* the lookup of a call that looks nothing up
NoLookup(result) == Lookup(result, NoSlot, <<>>, FALSE, <<>>)

\* the record of a call: the operation, its arguments, what it did, and
\* whether it repeats the call before it (nth = 2)
NbCall(name, face, pos, lookup, nth) ==
    [name |-> name, face |-> face, pos |-> pos, result |-> lookup.result,
     slot |-> lookup.slot, forwarded |-> lookup.forwarded, read_default |-> lookup.read_default,
     point |-> lookup.point, nth |-> nth]
NoNbCall == NbCall("none", None, <<>>, NoLookup(NbNoRet), 0)

(***************************************************************************)
(* The face plane the greedy mesher merges.                                *)
(***************************************************************************)
\* the cells of the plane, <<column, row>>
PlaneCells == (0..(PlaneSize - 1)) \X (0..(PlaneSize - 1))

\* the signature of a cell: Hidden for a face that is not visible, or the
\* texture of a visible face
Hidden == 0
Signatures == {Hidden, 1, 2}

\* the planes the mesher is run on
Planes == [PlaneCells -> Signatures]
\* the plane before a run
NoPlane == [cell \in PlaneCells |-> Hidden]

(***************************************************************************)
(* The observer: its position, its batches and the deferred commands.      *)
(* A translation is a Vec3 whose components are counted in halves of a     *)
(* block, so that <<31, 0, 0>> is the position (15.5, 0, 0).               *)
(***************************************************************************)
\* the translations the observer is moved to: either side of the border
\* between the chunks at x = -1 and x = 0, and of the one between 0 and 1
ObserverTranslations == {<<-1, 0, 0>>, <<0, 0, 0>>, <<31, 0, 0>>, <<32, 0, 0>>}

\* the batch entities of the world
Batches == {"b1", "b2"}

LastPosition(ws_pos, chunk_pos) == [some |-> TRUE, ws_pos |-> ws_pos, chunk_pos |-> chunk_pos]
\* Option::None of a LastPosition
NoLastPosition == [some |-> FALSE, ws_pos |-> <<0, 0, 0>>, chunk_pos |-> <<0, 0, 0>>]

CrossChunkBorder(new, old_chunk, new_chunk) ==
    [new |-> new, old_chunk |-> old_chunk, new_chunk |-> new_chunk]
NoEvent == CrossChunkBorder(FALSE, <<0, 0, 0>>, <<0, 0, 0>>)

\* the deferred commands
TriggerCrossChunkBorder(event) ==
    [cmd |-> "trigger", event |-> event, last |-> NoLastPosition, flags |-> {}]
InsertLastPosition(last) ==
    [cmd |-> "insert", event |-> NoEvent, last |-> last, flags |-> {}]
TriggerUpdateCachedChunkFlags(flags) ==
    [cmd |-> "flags", event |-> NoEvent, last |-> NoLastPosition, flags |-> flags]

\* no run of dispatch_move_events so far
NoRun == [ran |-> FALSE, again |-> FALSE, before |-> NoLastPosition,
          translation |-> <<0, 0, 0>>, triggered |-> <<>>,
          reported |-> NoEvent, any_reported |-> FALSE]
\* no run of update_observer_batches so far
NoUpdate == [ran |-> FALSE, event |-> NoEvent, before |-> [b \in Batches |-> {}],
             removed |-> {}, added |-> {}, ticked |-> {},
             sent |-> FALSE, flags |-> {}]

(***************************************************************************)
(* The channels (crossbeam unbounded channels).                            *)
(***************************************************************************)
\* workers that still own their clone of the command receiver: a thread that
\* returned or unwound has dropped it
CmdReceivers == {w \in Workers : worker_pc[w] \notin {"exited", "panicked"}}

\* Sender::send fails on a channel all of whose receivers are dropped
CmdDisconnected == CmdReceivers = {}

\* the builder, and the result receiver in it, is dropped when shutdown(self)
\* ends, by return or by unwinding
BuilderDropped == builder_pc \in {"returned", "panicked_shutdown"}

\* a send that puts the message at the head of the channel
send_front(queue, msg) == <<msg>> \o queue

\* what a successful send leaves in the channel
send(queue, msg) == Append(queue, msg)

\* a recv that leaves the received message in the channel
recv_rest_peek(queue) == queue

\* what a successful recv leaves in the channel
recv_rest(queue) == Tail(queue)

\* what a successful try_recv leaves in the channel
try_recv_rest(queue) == Tail(queue)

\* Receiver::recv returns only once a message is there
recv_ready(queue) == queue # <<>>

\* a try_recv that waits for a message, as recv does
try_recv_blocks(queue) == queue # <<>>

\* Receiver::try_recv returns at once, with a message or with Err(Empty)
try_recv_ready(queue) == TRUE

(***************************************************************************)
(* ParallelMeshBuilder                                                     *)
(***************************************************************************)
Init ==
    /\ pending_tasks = {}
    /\ cmd_queue = <<>>
    /\ mesh_queue = <<>>
    /\ builder_pc = "idle"
    /\ meshes = <<>>
    /\ shutdown_sent = 0
    /\ join_idx = 1
    /\ worker_pc = [w \in Workers |-> "recv"]
    /\ worker_cmd = [w \in Workers |-> NoCmd]
    /\ chunk_alive = Chunks
    /\ task_count = 0
    /\ last_call = [op |-> "new", pre |-> {}, ret |-> None, taken |-> <<>>,
                    panicked |-> FALSE]
    /\ fm_pre = {}
    /\ fm_taken = <<>>
    /\ picks = [t \in Tasks |-> 0]
    /\ picked_by = [t \in Tasks |-> {}]
    /\ sent_by = [t \in Tasks |-> {}]
    /\ sends = [t \in Tasks |-> 0]
    /\ failed_build = [w \in Workers |-> [kind |-> None, task |-> 0, id |-> 0]]
    /\ shutdowns_recv = [w \in Workers |-> 0]
    /\ at_shutdown = {}
    /\ changed = [c \in Chunks |-> FALSE]
    /\ voxels = [c \in Chunks |-> [pos \in Cells |-> DefaultVoxelId]]
    /\ models = [c \in Chunks |-> [pos \in Cells |-> "none"]]
    /\ voxels_held = [c \in Chunks |-> [t \in Threads |-> "none"]]
    /\ models_held = [c \in Chunks |-> [t \in Threads |-> "none"]]
    /\ thread_pc = [t \in Threads |-> "idle"]
    /\ thread_op = [t \in Threads |-> None]
    /\ thread_chunk = [t \in Threads |-> None]
    /\ thread_set = [t \in Threads |-> NoSet]
    /\ thread_ret = [t \in Threads |-> NoRet]
    /\ set_count = 0
    /\ last_write = [c \in Chunks |->
                        [pos \in Cells |-> ChunkVoxelOutput(DefaultVoxelId, "none")]]
    /\ nb_pc = "none"
    /\ nb_pos = None
    /\ nb_chunks = [i \in Slots |-> None]
    /\ nb_default = None
    /\ nb_sets = 0
    /\ nb_call = NoNbCall
    /\ mesh_indices = <<>>
    /\ mesh_normals = <<>>
    /\ mesh_positions = <<>>
    /\ mesh_misc_data = <<>>
    /\ mesh_textures = <<>>
    /\ mesh_quads = <<>>
    /\ gr_pc = "none"
    /\ gr_plane = NoPlane
    /\ gr_cursor = 0
    /\ gr_consumed = {}
    /\ gr_quads = <<>>
    /\ ob_pc = "none"
    /\ ob_range = 0
    /\ ob_translation = <<0, 0, 0>>
    /\ ob_last = NoLastPosition
    /\ ob_owned = {}
    /\ ob_chunks = [b \in Batches |-> {}]
    /\ ob_membership = {}
    /\ ob_cmds = <<>>
    /\ ob_run = NoRun
    /\ ob_update = NoUpdate
    /\ writers = [c \in Chunks |-> [pos \in Cells |-> {}]]

\* the loop of unique_task_id: the first id of id..=last not pending
RECURSIVE first_free(_, _, _)
first_free(pending, id, last) ==
    IF id > last THEN NoTaskId
    ELSE IF id \notin pending THEN id
    ELSE first_free(pending, id + 1, last)

\* an allocator that returns the largest pending id, not the one after it
unique_task_id_max(pending) == IF pending = {} THEN 0 ELSE SetMax(pending)

\* an allocator whose loop starts at 1
unique_task_id_from_1(pending) ==
    LET max == IF pending = {} THEN 0 ELSE SetMax(pending)
    IN  first_free(pending, 1, max + 1)

unique_task_id(pending) ==
    LET max == IF pending = {} THEN 0 ELSE SetMax(pending)
    IN  first_free(pending, 0, max + 1)

\* an insertion that is left out
add_pending_task_skipped(pending, id) == pending

add_pending_task(pending, id) == pending \cup {id}

\* a removal that empties the set
remove_pending_task_all(pending, id) == {}

\* a removal that removes nothing
remove_pending_task_none(pending, id) == pending

remove_pending_task(pending, id) == pending \ {id}

\* queue_chunk(chunk_ref, adjacency); send_cmd unwraps the send's result.
\* MaxTasks bounds the commands queued: a call that panics queues none
QueueChunk(c) ==
    /\ builder_pc = "idle"
    /\ LET id == unique_task_id(pending_tasks)
           task == task_count + 1
       IN  IF id = NoTaskId
           THEN /\ builder_pc' = "panicked_queue_chunk"
                /\ last_call' = [op |-> "queue_chunk", pre |-> pending_tasks,
                                 ret |-> NoTaskId, taken |-> <<>>, panicked |-> TRUE]
                /\ UNCHANGED <<pending_tasks, cmd_queue, task_count>>
           ELSE /\ pending_tasks' = add_pending_task(pending_tasks, id)
                /\ IF CmdDisconnected
                   THEN /\ builder_pc' = "panicked_queue_chunk"
                        /\ last_call' = [op |-> "queue_chunk", pre |-> pending_tasks,
                                         ret |-> NoTaskId, taken |-> <<>>,
                                         panicked |-> TRUE]
                        /\ UNCHANGED <<cmd_queue, task_count>>
                   ELSE /\ task_count < MaxTasks
                        /\ cmd_queue' = send(cmd_queue, BuildCmd(id, c, task))
                        /\ task_count' = task
                        /\ last_call' = [op |-> "queue_chunk", pre |-> pending_tasks,
                                         ret |-> id, taken |-> <<>>,
                                         panicked |-> FALSE]
                        /\ UNCHANGED builder_pc
    /\ UNCHANGED <<mesh_queue, meshes, shutdown_sent, join_idx, worker_pc, worker_cmd,
                   chunk_alive, fm_pre, fm_taken, at_shutdown>>
    /\ UNCHANGED worker_hist
    /\ UNCHANGED <<chunk_vars, meshing_vars>>

\* finished_meshes(): the call, with its empty Vec
FinishedMeshesCall ==
    /\ builder_pc = "idle"
    /\ builder_pc' = "finished_meshes"
    /\ meshes' = <<>>
    /\ fm_pre' = pending_tasks
    /\ fm_taken' = <<>>
    /\ UNCHANGED <<pending_tasks, cmd_queue, mesh_queue, shutdown_sent, join_idx,
                   worker_pc, worker_cmd, chunk_alive, task_count, last_call,
                   at_shutdown>>
    /\ UNCHANGED worker_hist
    /\ UNCHANGED <<chunk_vars, meshing_vars>>

\* one evaluation of `while let Ok(worker_response) = mesh_receiver.try_recv()`:
\* a result is taken, or the queue is empty and the call returns its Vec
FinishedMeshesTryRecv ==
    /\ builder_pc = "finished_meshes"
    /\ try_recv_ready(mesh_queue)
    /\ IF mesh_queue # <<>>
       THEN LET worker_response == Head(mesh_queue)
            IN  /\ mesh_queue' = try_recv_rest(mesh_queue)
                /\ pending_tasks' = remove_pending_task(pending_tasks, worker_response.id)
                /\ meshes' = Append(meshes, ChunkMesh(worker_response))
                /\ fm_taken' = Append(fm_taken, worker_response)
                /\ UNCHANGED <<builder_pc, last_call, fm_pre>>
       ELSE /\ builder_pc' = "idle"
            /\ last_call' = [op |-> "finished_meshes", pre |-> fm_pre, ret |-> meshes,
                             taken |-> fm_taken, panicked |-> FALSE]
            /\ meshes' = <<>>
            /\ fm_pre' = {}
            /\ fm_taken' = <<>>
            /\ UNCHANGED <<mesh_queue, pending_tasks>>
    /\ UNCHANGED <<cmd_queue, shutdown_sent, join_idx, worker_pc, worker_cmd,
                   chunk_alive, task_count, at_shutdown>>
    /\ UNCHANGED worker_hist
    /\ UNCHANGED <<chunk_vars, meshing_vars>>

\* shutdown(self): the call
ShutdownCall ==
    /\ builder_pc = "idle"
    /\ builder_pc' = "shutdown_send"
    /\ shutdown_sent' = 0
    /\ at_shutdown' = {worker_cmd[w].task : w \in {v \in Workers : worker_cmd[v] # NoCmd}}
    /\ UNCHANGED <<pending_tasks, cmd_queue, mesh_queue, meshes, join_idx, worker_pc,
                   worker_cmd, chunk_alive, task_count, last_call, fm_pre,
                   fm_taken>>
    /\ UNCHANGED worker_hist
    /\ UNCHANGED <<chunk_vars, meshing_vars>>

\* how many Shutdown commands shutdown's first loop sends
ShutdownsToSend == Cardinality(Workers)

\* one turn of `for _ in 0..self.workers.len()`, or the end of that loop
ShutdownSend ==
    /\ builder_pc = "shutdown_send"
    /\ IF shutdown_sent < ShutdownsToSend
       THEN IF CmdDisconnected
            THEN /\ builder_pc' = "panicked_shutdown"
                 /\ last_call' = [op |-> "shutdown", pre |-> pending_tasks, ret |-> None,
                                  taken |-> <<>>, panicked |-> TRUE]
                 /\ UNCHANGED <<cmd_queue, shutdown_sent, join_idx>>
            ELSE /\ cmd_queue' = send(cmd_queue, ShutdownCmd)
                 /\ shutdown_sent' = shutdown_sent + 1
                 /\ UNCHANGED <<builder_pc, last_call, join_idx>>
       ELSE /\ builder_pc' = "shutdown_join"
            /\ join_idx' = 1
            /\ UNCHANGED <<cmd_queue, shutdown_sent, last_call>>
    /\ UNCHANGED <<pending_tasks, mesh_queue, meshes, worker_pc, worker_cmd,
                   chunk_alive, task_count, fm_pre, fm_taken, at_shutdown>>
    /\ UNCHANGED worker_hist
    /\ UNCHANGED <<chunk_vars, meshing_vars>>

\* JoinHandle::join returns once the thread has ended
Joinable(w) == worker_pc[w] \in {"exited", "panicked"}

\* one turn of `for worker in self.workers.into_iter()`: join().unwrap(), or
\* the end of that loop and of shutdown
ShutdownJoin ==
    /\ builder_pc = "shutdown_join"
    /\ IF join_idx <= NumWorkers
       THEN /\ Joinable(join_idx)
            /\ IF worker_pc[join_idx] = "panicked"
               THEN /\ builder_pc' = "panicked_shutdown"
                    /\ last_call' = [op |-> "shutdown", pre |-> pending_tasks, ret |-> None,
                                  taken |-> <<>>, panicked |-> TRUE]
                    /\ UNCHANGED join_idx
               ELSE /\ join_idx' = join_idx + 1
                    /\ UNCHANGED <<builder_pc, last_call>>
       ELSE /\ builder_pc' = "returned"
            /\ last_call' = [op |-> "shutdown", pre |-> pending_tasks, ret |-> None,
                             taken |-> <<>>, panicked |-> FALSE]
            /\ UNCHANGED join_idx
    /\ UNCHANGED <<pending_tasks, cmd_queue, mesh_queue, meshes, shutdown_sent,
                   worker_pc, worker_cmd, chunk_alive, task_count, fm_pre,
                   fm_taken, at_shutdown>>
    /\ UNCHANGED worker_hist
    /\ UNCHANGED <<chunk_vars, meshing_vars>>

(***************************************************************************)
(* MesherWorker: the thread's loop `while !interrupt`.                     *)
(***************************************************************************)
\* a worker that drops the failed command and goes on with its loop
PanicSwallowed == "recv"

\* where the thread goes when its closure unwinds from a failed unwrap
Panicked == "panicked"

\* MesherWorkerCommand::Shutdown => interrupt = true: the loop ends, and the
\* thread with it
AfterShutdown == "exited"

\* let cmd = cmd_receiver.recv().unwrap(); match cmd { .. }
\* (recv blocks while the queue is empty; the queue is never both empty and
\* without its sender while a worker waits: see RecvNeverDisconnected)
WorkerRecv(w) ==
    /\ worker_pc[w] = "recv"
    /\ recv_ready(cmd_queue)
    /\ LET cmd == Head(cmd_queue)
       IN  /\ cmd_queue' = recv_rest(cmd_queue)
           /\ IF cmd.kind = "Shutdown"
              THEN /\ worker_pc' = [worker_pc EXCEPT ![w] = AfterShutdown]
                   /\ shutdowns_recv' = [shutdowns_recv EXCEPT ![w] = @ + 1]
                   /\ UNCHANGED <<worker_cmd, picks, picked_by>>
              ELSE /\ worker_pc' = [worker_pc EXCEPT ![w] = "build"]
                   /\ worker_cmd' = [worker_cmd EXCEPT ![w] = cmd]
                   /\ picks' = [picks EXCEPT ![cmd.task] = @ + 1]
                   /\ picked_by' = [picked_by EXCEPT ![cmd.task] = @ \cup {w}]
                   /\ UNCHANGED shutdowns_recv
    /\ UNCHANGED <<mesh_queue, chunk_alive, sent_by, sends, failed_build>>
    /\ UNCHANGED builder_vars
    /\ UNCHANGED call_hist
    /\ UNCHANGED <<chunk_vars, meshing_vars>>

\* the worker's state after its build ended with `outcome`
BuildEnds(w, outcome) ==
    IF outcome = "Ok"
    THEN /\ worker_pc' = [worker_pc EXCEPT ![w] = "send"]
         /\ UNCHANGED <<worker_cmd, failed_build>>
    ELSE /\ worker_pc' = [worker_pc EXCEPT ![w] = Panicked]
         /\ worker_cmd' = [worker_cmd EXCEPT ![w] = NoCmd]
         /\ failed_build' = [failed_build EXCEPT
                                ![w] = [kind |-> outcome, task |-> worker_cmd[w].task,
                                        id |-> worker_cmd[w].id]]

\* data.chunk_ref.with_read_access(|access| mesher.build(&access, cx).unwrap())
\*     .unwrap():
\* the Weak<Chunk> does not upgrade, or the mesher returns Ok or Err
WorkerBuild(w) ==
    /\ worker_pc[w] = "build"
    /\ \/ /\ worker_cmd[w].chunk_ref \notin chunk_alive
          /\ BuildEnds(w, "Unloaded")
       \/ /\ worker_cmd[w].chunk_ref \in chunk_alive
          /\ BuildEnds(w, "Ok")
       \/ /\ worker_cmd[w].chunk_ref \in chunk_alive
          /\ BuildEnds(w, "MesherError")
    /\ UNCHANGED <<cmd_queue, mesh_queue, chunk_alive, picks, picked_by, sent_by,
                   sends, shutdowns_recv>>
    /\ UNCHANGED builder_vars
    /\ UNCHANGED call_hist
    /\ UNCHANGED <<chunk_vars, meshing_vars>>

\* mesh_sender.send(MesherWorkerOutput { .. }).unwrap()
WorkerSend(w) ==
    /\ worker_pc[w] = "send"
    /\ IF BuilderDropped
       THEN /\ worker_pc' = [worker_pc EXCEPT ![w] = Panicked]
            /\ UNCHANGED <<mesh_queue, sent_by, sends>>
       ELSE /\ mesh_queue' = send(mesh_queue, WorkerOutput(worker_cmd[w]))
            /\ worker_pc' = [worker_pc EXCEPT ![w] = "recv"]
            /\ sent_by' = [sent_by EXCEPT ![worker_cmd[w].task] = @ \cup {w}]
            /\ sends' = [sends EXCEPT ![worker_cmd[w].task] = @ + 1]
    /\ worker_cmd' = [worker_cmd EXCEPT ![w] = NoCmd]
    /\ UNCHANGED <<cmd_queue, chunk_alive, picks, picked_by, failed_build,
                   shutdowns_recv>>
    /\ UNCHANGED builder_vars
    /\ UNCHANGED call_hist
    /\ UNCHANGED <<chunk_vars, meshing_vars>>

(***************************************************************************)
(* The world unloads a chunk: it drops its Arc<Chunk> and Arc<AtomicBool>. *)
(***************************************************************************)
UnloadChunk(c) ==
    /\ c \in chunk_alive
    /\ chunk_alive' = chunk_alive \ {c}
    /\ UNCHANGED <<cmd_queue, mesh_queue, worker_pc, worker_cmd>>
    /\ UNCHANGED builder_vars
    /\ UNCHANGED call_hist
    /\ UNCHANGED worker_hist
    /\ UNCHANGED <<chunk_vars, meshing_vars>>

WorkerStep(w) == WorkerRecv(w) \/ WorkerBuild(w) \/ WorkerSend(w)

BuilderStep ==
    \/ \E c \in Chunks : QueueChunk(c)
    \/ FinishedMeshesCall
    \/ FinishedMeshesTryRecv
    \/ ShutdownCall
    \/ ShutdownSend
    \/ ShutdownJoin

Next ==
    \/ BuilderStep
    \/ \E w \in Workers : WorkerStep(w)
    \/ \E c \in Chunks : UnloadChunk(c)

Spec == Init /\ [][Next]_vars

\* the steps inside a builder call: the calls themselves are the caller's choice
BuilderCallStep == FinishedMeshesTryRecv \/ ShutdownSend \/ ShutdownJoin

\* the scheduler runs every thread that can run: a worker that can take a step
\* eventually takes one, and a builder call that has begun goes on
FairSpec ==
    /\ Spec
    /\ \A w \in Workers : WF_vars(WorkerStep(w))
    /\ WF_vars(BuilderCallStep)

\* the command sender is dropped only with the builder; no worker then waits
\* on an empty queue, so recv never returns Err
RecvNeverDisconnected ==
    builder_pc \in {"returned", "panicked_shutdown", "panicked_queue_chunk"} =>
        \A w \in Workers : worker_pc[w] = "recv" => cmd_queue # <<>>

(***************************************************************************)
(* Chunk and its containers, as ChunkRef uses them.  A chunk is owned by   *)
(* the world: chunk_alive holds the chunks whose Arc<Chunk> and            *)
(* Arc<AtomicBool> the world still has, and it drops the two together.     *)
(***************************************************************************)
\* everything of the mesh builder and its workers
mesh_builder_vars == <<builder_vars, call_hist, worker_hist, cmd_queue, mesh_queue,
                       worker_pc, worker_cmd>>

\* the builder, the chunks and the world
engine_vars == <<chunk_alive, chunk_vars, mesh_builder_vars>>

\* the threads inside a call on a ChunkRef of chunk c: each holds the
\* Arc<Chunk> its call upgraded
Holders(c) == {t \in Threads : thread_pc[t] # "idle" /\ thread_chunk[t] = c}

\* an upgrade that succeeds on a chunk that is gone
ChunkExistsAlways(c) == TRUE

\* self.chunk.upgrade() is Some: an Arc<Chunk> exists
ChunkExists(c) == c \in chunk_alive \/ Holders(c) # {}

\* self.changed.upgrade() is Some: an Arc<AtomicBool> exists
FlagExists(c) == c \in chunk_alive

\* chunk.voxels.access(), chunk.models.access(): the container as a whole is
\* write-accessed, once no other thread holds an access to it
access_ready(held, t) == \A u \in Threads \ {t} : held[u] = "none"

\* chunk.voxels.read_access(), chunk.models.read_access(): reads never block
\* other reads
read_access_ready(held, t) == \A u \in Threads \ {t} : held[u] # "write"

\* a container grants thread t an access of `kind`
access_granted(held, t, kind) ==
    IF kind = "write" THEN access_ready(held, t) ELSE read_access_ready(held, t)

\* a with_access that asks the containers for read_access()
WithAccessReads == "read"

\* the access with_access asks the containers for: access()
WithAccessKind == "write"

\* the access with_read_access asks the containers for: read_access()
WithReadAccessKind == "read"

\* the containers' bounds check: Err(OutOfBounds) outside the chunk
container_in_bounds(pos) == contains(pos)

\* SyncDenseContainerAccess::set, SiccAccess::set on an in-bounds position
container_set(container, pos, value) ==
    IF pos \in DOMAIN container THEN [container EXCEPT ![pos] = value] ELSE container

\* SyncDenseContainer*Access::get, Sicc*Access::get on an in-bounds position
container_get(container, pos, default) ==
    IF pos \in DOMAIN container THEN container[pos] ELSE default

\* a store that leaves the flag as it is
store_nothing(flags, c) == flags

\* changed.store(true, Ordering::SeqCst)
store_true(flags, c) == [flags EXCEPT ![c] = TRUE]

\* a set that drops the block model
model_dropped(model) == "none"

\* what models.set gets for data.model: None, or Some(block_model)
model_to_store(model) == IF model.variant = "Block" THEN model.block ELSE "none"

\* the ChunkVoxelOutput a cell holds after set(pos, data), both containers set
stored(data) == ChunkVoxelOutput(data.id, model_to_store(data.model))

\* a with_access that goes on to its accesses without treat_as_changed
WriteAccessSkipsMark == "wa_voxels"

\* where with_access goes once the chunk is upgraded: to treat_as_changed
WriteAccessBegins == "wa_changed"

\* a with_read_access that asks for the models without the voxels
ReadAccessModelsOnly == "ra_models"

\* a with_read_access that goes the way of with_access once the chunk is upgraded
ReadAccessMarks == "wa_changed"

\* where with_read_access goes once the chunk is upgraded: to its accesses
ReadAccessBegins == "ra_voxels"

\* treat_as_changed(), called on a ChunkRef of chunk c
TreatAsChanged(t, c) ==
    /\ thread_pc[t] = "idle"
    /\ thread_op' = [thread_op EXCEPT ![t] = "treat_as_changed"]
    /\ IF FlagExists(c)
       THEN /\ changed' = store_true(changed, c)
            /\ thread_ret' = [thread_ret EXCEPT ![t] = OkRet]
       ELSE /\ thread_ret' = [thread_ret EXCEPT ![t] = Unloaded]
            /\ UNCHANGED changed
    /\ UNCHANGED <<voxels, models, voxels_held, models_held, thread_pc, thread_chunk,
                   thread_set, set_count, last_write, chunk_alive>>
    /\ UNCHANGED <<writers, mesh_builder_vars, meshing_vars>>

\* with_access(f): let chunk = self.chunk.upgrade().ok_or(Unloaded)?
WithAccessCall(t, c) ==
    /\ thread_pc[t] = "idle"
    /\ thread_op' = [thread_op EXCEPT ![t] = "with_access"]
    /\ IF ChunkExists(c)
       THEN /\ thread_pc' = [thread_pc EXCEPT ![t] = WriteAccessBegins]
            /\ thread_chunk' = [thread_chunk EXCEPT ![t] = c]
            /\ thread_ret' = [thread_ret EXCEPT ![t] = NoRet]
       ELSE /\ thread_ret' = [thread_ret EXCEPT ![t] = Unloaded]
            /\ UNCHANGED <<thread_pc, thread_chunk>>
    /\ UNCHANGED <<changed, voxels, models, voxels_held, models_held, thread_set,
                   set_count, last_write, chunk_alive>>
    /\ UNCHANGED <<writers, mesh_builder_vars, meshing_vars>>

\* with_access(f): self.treat_as_changed()?
WithAccessChanged(t) ==
    /\ thread_pc[t] = "wa_changed"
    /\ LET c == thread_chunk[t]
       IN  IF FlagExists(c)
           THEN /\ changed' = store_true(changed, c)
                /\ thread_pc' = [thread_pc EXCEPT ![t] = "wa_voxels"]
                /\ UNCHANGED <<thread_chunk, thread_ret>>
           ELSE /\ thread_pc' = [thread_pc EXCEPT ![t] = "idle"]
                /\ thread_chunk' = [thread_chunk EXCEPT ![t] = None]
                /\ thread_ret' = [thread_ret EXCEPT ![t] = Unloaded]
                /\ UNCHANGED changed
    /\ UNCHANGED <<voxels, models, voxels_held, models_held, thread_set, set_count,
                   last_write, chunk_alive>>
    /\ UNCHANGED <<thread_op, writers, mesh_builder_vars, meshing_vars>>

\* with_access(f): let voxel_access = chunk.voxels.access()
WithAccessVoxels(t) ==
    /\ thread_pc[t] = "wa_voxels"
    /\ LET c == thread_chunk[t]
       IN  /\ access_granted(voxels_held[c], t, WithAccessKind)
           /\ voxels_held' = [voxels_held EXCEPT ![c][t] = WithAccessKind]
    /\ thread_pc' = [thread_pc EXCEPT ![t] = "wa_models"]
    /\ UNCHANGED <<changed, voxels, models, models_held, thread_chunk, thread_set,
                   thread_ret, set_count, last_write, chunk_alive>>
    /\ UNCHANGED <<thread_op, writers, mesh_builder_vars, meshing_vars>>

\* with_access(f): let model_access = chunk.models.access(); then f is called
WithAccessModels(t) ==
    /\ thread_pc[t] = "wa_models"
    /\ LET c == thread_chunk[t]
       IN  /\ access_granted(models_held[c], t, WithAccessKind)
           /\ models_held' = [models_held EXCEPT ![c][t] = WithAccessKind]
    /\ thread_pc' = [thread_pc EXCEPT ![t] = "wa_closure"]
    /\ thread_set' = [thread_set EXCEPT ![t] = NoSet]
    /\ UNCHANGED <<changed, voxels, models, voxels_held, thread_chunk, thread_ret,
                   set_count, last_write, chunk_alive>>
    /\ UNCHANGED <<thread_op, writers, mesh_builder_vars, meshing_vars>>

\* ChunkRefVxlAccess::set(pos, data), to the end of its self.voxels.set(pos, data.id)?
\* The arm `_ => todo!()` panics, and the unwinding drops what with_access holds.
\* (MaxSets bounds the sets that write; one that fails writes nothing)
Set(t, pos, data) ==
    /\ thread_pc[t] = "wa_closure"
    /\ LET c == thread_chunk[t]
       IN  IF data.model.variant \notin {"None", "Block"}
           THEN /\ thread_pc' = [thread_pc EXCEPT ![t] = "panicked"]
                /\ voxels_held' = [voxels_held EXCEPT ![c][t] = "none"]
                /\ models_held' = [models_held EXCEPT ![c][t] = "none"]
                /\ thread_chunk' = [thread_chunk EXCEPT ![t] = None]
                /\ UNCHANGED <<voxels, thread_set, thread_ret, set_count, last_write>>
           ELSE IF ~container_in_bounds(pos)
           THEN /\ thread_ret' = [thread_ret EXCEPT ![t] = OutOfBounds("set")]
                /\ UNCHANGED <<voxels, thread_pc, thread_set, set_count, last_write,
                               voxels_held, models_held, thread_chunk>>
           ELSE /\ set_count < MaxSets
                /\ voxels' = [voxels EXCEPT ![c] = container_set(@, pos, data.id)]
                /\ thread_pc' = [thread_pc EXCEPT ![t] = "wa_set_models"]
                /\ thread_set' = [thread_set EXCEPT
                       ![t] = <<[pos |-> pos, data |-> data,
                                 was |-> ChunkVoxelOutput(voxels[c][pos], models[c][pos])]>>]
                /\ thread_ret' = [thread_ret EXCEPT ![t] = NoRet]
                /\ set_count' = set_count + 1
                /\ last_write' = [last_write EXCEPT ![c] = container_set(@, pos, stored(data))]
                /\ UNCHANGED <<voxels_held, models_held, thread_chunk>>
    /\ UNCHANGED <<changed, models, chunk_alive>>
    /\ UNCHANGED <<thread_op, writers, mesh_builder_vars, meshing_vars>>

\* ChunkRefVxlAccess::set: self.models.set(pos, None)? or
\* self.models.set(pos, Some(block_model))?, then Ok(())
SetModels(t) ==
    /\ thread_pc[t] = "wa_set_models"
    /\ LET c == thread_chunk[t]
           pos == thread_set[t][1].pos
           data == thread_set[t][1].data
       IN  IF ~container_in_bounds(pos)
           THEN /\ thread_ret' = [thread_ret EXCEPT ![t] = OutOfBounds("set")]
                /\ UNCHANGED <<models, writers>>
           ELSE /\ models' = [models EXCEPT
                                 ![c] = container_set(@, pos, model_to_store(data.model))]
                /\ thread_ret' = [thread_ret EXCEPT ![t] = OkSet]
                /\ writers' = [writers EXCEPT ![c][pos] = @ \cup {t}]
    /\ thread_pc' = [thread_pc EXCEPT ![t] = "wa_closure"]
    /\ UNCHANGED <<changed, voxels, voxels_held, models_held, thread_chunk, thread_set,
                   set_count, last_write, chunk_alive>>
    /\ UNCHANGED <<thread_op, mesh_builder_vars, meshing_vars>>

\* a get that returns the default output where a container returns an error
get_or_default(voxel_container, model_container, pos) ==
    OkOutput(ChunkVoxelOutput(container_get(voxel_container, pos, DefaultVoxelId),
                              container_get(model_container, pos, "none")))

\* Ok(ChunkVoxelOutput { id: self.voxels.get(pos)?, model: self.models.get(pos)? })
get(voxel_container, model_container, pos) ==
    IF ~container_in_bounds(pos) THEN OutOfBounds("get")
    ELSE OkOutput(ChunkVoxelOutput(container_get(voxel_container, pos, DefaultVoxelId),
                                   container_get(model_container, pos, "none")))

\* ChunkRefVxlAccess::get(pos)
Get(t, pos) ==
    /\ thread_pc[t] = "wa_closure"
    /\ LET c == thread_chunk[t]
       IN  thread_ret' = [thread_ret EXCEPT ![t] = get(voxels[c], models[c], pos)]
    /\ UNCHANGED <<changed, voxels, models, voxels_held, models_held, thread_pc,
                   thread_chunk, thread_set, set_count, last_write, chunk_alive>>
    /\ UNCHANGED <<thread_op, writers, mesh_builder_vars, meshing_vars>>

\* with_access(f): f returned; the two accesses and the Arc<Chunk> are dropped
WithAccessReturn(t) ==
    /\ thread_pc[t] = "wa_closure"
    /\ LET c == thread_chunk[t]
       IN  /\ voxels_held' = [voxels_held EXCEPT ![c][t] = "none"]
           /\ models_held' = [models_held EXCEPT ![c][t] = "none"]
    /\ thread_pc' = [thread_pc EXCEPT ![t] = "idle"]
    /\ thread_chunk' = [thread_chunk EXCEPT ![t] = None]
    /\ thread_set' = [thread_set EXCEPT ![t] = NoSet]
    /\ thread_ret' = [thread_ret EXCEPT ![t] = OkRet]
    /\ UNCHANGED <<changed, voxels, models, set_count, last_write, chunk_alive>>
    /\ UNCHANGED <<thread_op, writers, mesh_builder_vars, meshing_vars>>

\* with_read_access(f): let chunk = self.chunk.upgrade().ok_or(Unloaded)?
WithReadAccessCall(t, c) ==
    /\ thread_pc[t] = "idle"
    /\ thread_op' = [thread_op EXCEPT ![t] = "with_read_access"]
    /\ IF ChunkExists(c)
       THEN /\ thread_pc' = [thread_pc EXCEPT ![t] = ReadAccessBegins]
            /\ thread_chunk' = [thread_chunk EXCEPT ![t] = c]
            /\ thread_ret' = [thread_ret EXCEPT ![t] = NoRet]
       ELSE /\ thread_ret' = [thread_ret EXCEPT ![t] = Unloaded]
            /\ UNCHANGED <<thread_pc, thread_chunk>>
    /\ UNCHANGED <<changed, voxels, models, voxels_held, models_held, thread_set,
                   set_count, last_write, chunk_alive>>
    /\ UNCHANGED <<writers, mesh_builder_vars, meshing_vars>>

\* with_read_access(f): let voxel_access = chunk.voxels.read_access()
WithReadAccessVoxels(t) ==
    /\ thread_pc[t] = "ra_voxels"
    /\ LET c == thread_chunk[t]
       IN  /\ access_granted(voxels_held[c], t, WithReadAccessKind)
           /\ voxels_held' = [voxels_held EXCEPT ![c][t] = WithReadAccessKind]
    /\ thread_pc' = [thread_pc EXCEPT ![t] = "ra_models"]
    /\ UNCHANGED <<changed, voxels, models, models_held, thread_chunk, thread_set,
                   thread_ret, set_count, last_write, chunk_alive>>
    /\ UNCHANGED <<thread_op, writers, mesh_builder_vars, meshing_vars>>

\* with_read_access(f): let model_access = chunk.models.read_access(); then f
\* is called
WithReadAccessModels(t) ==
    /\ thread_pc[t] = "ra_models"
    /\ LET c == thread_chunk[t]
       IN  /\ access_granted(models_held[c], t, WithReadAccessKind)
           /\ models_held' = [models_held EXCEPT ![c][t] = WithReadAccessKind]
    /\ thread_pc' = [thread_pc EXCEPT ![t] = "ra_closure"]
    /\ UNCHANGED <<changed, voxels, models, voxels_held, thread_chunk, thread_set,
                   thread_ret, set_count, last_write, chunk_alive>>
    /\ UNCHANGED <<thread_op, writers, mesh_builder_vars, meshing_vars>>

\* ChunkRefVxlReadAccess::get(pos)
ReadGet(t, pos) ==
    /\ thread_pc[t] = "ra_closure"
    /\ LET c == thread_chunk[t]
       IN  thread_ret' = [thread_ret EXCEPT ![t] = get(voxels[c], models[c], pos)]
    /\ UNCHANGED <<changed, voxels, models, voxels_held, models_held, thread_pc,
                   thread_chunk, thread_set, set_count, last_write, chunk_alive>>
    /\ UNCHANGED <<thread_op, writers, mesh_builder_vars, meshing_vars>>

\* with_read_access(f): f returned; the two accesses and the Arc<Chunk> are
\* dropped
WithReadAccessReturn(t) ==
    /\ thread_pc[t] = "ra_closure"
    /\ LET c == thread_chunk[t]
       IN  /\ voxels_held' = [voxels_held EXCEPT ![c][t] = "none"]
           /\ models_held' = [models_held EXCEPT ![c][t] = "none"]
    /\ thread_pc' = [thread_pc EXCEPT ![t] = "idle"]
    /\ thread_chunk' = [thread_chunk EXCEPT ![t] = None]
    /\ thread_ret' = [thread_ret EXCEPT ![t] = OkRet]
    /\ UNCHANGED <<changed, voxels, models, thread_set, set_count, last_write,
                   chunk_alive>>
    /\ UNCHANGED <<thread_op, writers, mesh_builder_vars, meshing_vars>>

\* the steps of a thread through its calls on a ChunkRef, its closures
\* passing the positions of `positions`
ThreadStepAt(t, positions) ==
    \/ \E c \in Chunks : TreatAsChanged(t, c)
    \/ \E c \in Chunks : WithAccessCall(t, c)
    \/ WithAccessChanged(t)
    \/ WithAccessVoxels(t)
    \/ WithAccessModels(t)
    \/ \E pos \in positions : \E data \in Inputs : Set(t, pos, data)
    \/ SetModels(t)
    \/ \E pos \in positions : Get(t, pos)
    \/ WithAccessReturn(t)
    \/ \E c \in Chunks : WithReadAccessCall(t, c)
    \/ WithReadAccessVoxels(t)
    \/ WithReadAccessModels(t)
    \/ \E pos \in positions : ReadGet(t, pos)
    \/ WithReadAccessReturn(t)

ThreadStep(t) == ThreadStepAt(t, Positions)

ChunkNext ==
    \/ \E t \in Threads : ThreadStep(t)
    \/ \E c \in Chunks : UnloadChunk(c)

\* the threads that use a chunk, and the world that unloads it
ChunkSpec == Init /\ [][ChunkNext]_vars

SessionNext ==
    \/ ThreadStepAt("t1", SessionPositions)
    \/ \E c \in Chunks : UnloadChunk(c)

\* one thread alone on a chunk: its sessions follow one another
SessionSpec == Init /\ [][SessionNext]_vars

(***************************************************************************)
(* The neighbor sampler (render/meshing/mod.rs).                           *)
(***************************************************************************)
\* i32 division that rounds towards zero (the `/` of the language)
div_trunc(a, b) == IF a >= 0 THEN a \div b ELSE -((-a) \div b)

\* i32 remainder with the sign of the dividend (the `%` of the language)
rem_trunc(a, b) == a - b * div_trunc(a, b)

\* a division that rounds towards zero where div_euclid is called for
div_towards_zero(a, b) == div_trunc(a, b)

\* i32::div_euclid for a positive b: q = a / b, one less when a % b < 0
div_euclid(a, b) == IF rem_trunc(a, b) < 0 THEN div_trunc(a, b) - 1 ELSE div_trunc(a, b)

\* i32::rem_euclid for a positive b: r = a % b, plus b when r < 0
rem_euclid(a, b) == IF rem_trunc(a, b) < 0 THEN rem_trunc(a, b) + b ELSE rem_trunc(a, b)

\* chkspace_pos_to_chk_pos: the offset of the chunk a position lies in
chkspace_pos_to_chk_pos(pos) ==
    <<div_euclid(pos[1], SIZE), div_euclid(pos[2], SIZE), div_euclid(pos[3], SIZE)>>

\* the position handed on as it is in chunkspace
place_chkspace_pos_unmoved(pos) == pos

\* place_chkspace_pos_origin_on_neighbor_origin: the position in that chunk
place_chkspace_pos_origin_on_neighbor_origin(pos) ==
    <<rem_euclid(pos[1], SIZE), rem_euclid(pos[2], SIZE), rem_euclid(pos[3], SIZE)>>

\* Err(ConversionError) of util::try_ivec3_to_usize_arr and of ivec3_to_1d
ConversionError == [ok |-> FALSE, val |-> <<>>]

\* util::try_ivec3_to_usize_arr succeeds when no component is negative
try_ivec3_to_usize_arr(v) ==
    IF v[1] >= 0 /\ v[2] >= 0 /\ v[3] >= 0 THEN [ok |-> TRUE, val |-> v] ELSE ConversionError

\* to_1d
to_1d(x, y, z) == (z * MAX * MAX) + (y * MAX) + x

\* ivec3_to_1d
ivec3_to_1d(v) ==
    LET arr == try_ivec3_to_usize_arr(v)
    IN  IF ~arr.ok
        THEN ConversionError
        ELSE [ok |-> TRUE, val |-> to_1d(arr.val[1], arr.val[2], arr.val[3])]

\* v + IVec3::ONE
plus_one(v) == <<v[1] + 1, v[2] + 1, v[3] + 1>>

\* a bounds check that lets max itself through
is_in_bounds_inclusive(pos) ==
    pos[1] >= -1 /\ pos[2] >= -1 /\ pos[1] <= SIZE + 1 /\ pos[2] <= SIZE + 1

\* is_in_bounds: min = -ONE, max = splat(SIZE) + ONE, min <= pos < max
is_in_bounds(pos) ==
    pos[1] >= -1 /\ pos[2] >= -1 /\ pos[1] < SIZE + 1 /\ pos[2] < SIZE + 1

\* Face::axis_direction: 1 for the faces on the positive side of their axis,
\* -1 for the others
axis_direction(face) == IF face \in {"Top", "North", "East"} THEN 1 ELSE -1

\* greedy::ivec_project_to_3d: the face-local position on the plane of the
\* face at mag on the face's axis (y for Top and Bottom, x for North and
\* South, z for East and West)
ivec_project_to_3d(pos, face, mag) ==
    CASE face \in {"Top", "Bottom"} -> <<pos[1], mag, pos[2]>>
      [] face \in {"North", "South"} -> <<mag, pos[1], pos[2]>>
      [] face \in {"East", "West"} -> <<pos[1], pos[2], mag>>

\* a magnitude of 0 on the negative side
magnitude_zero(face) == IF axis_direction(face) > 0 THEN SIZE ELSE 0

\* get's mag: axis_direction(), replaced by SIZE when positive
magnitude(face) == IF axis_direction(face) > 0 THEN SIZE ELSE axis_direction(face)

\* get's pos_3d
pos_3d(face, pos) == ivec_project_to_3d(pos, face, magnitude(face))

\* C::get of a neighbor's accessor, a read access of a chunk
access_get(access, pos) ==
    IF contains(pos) THEN NbOk(Sample(access, pos)) ELSE NbInternal

\* a check of the center chunk that never finds it
is_center_never(chk_pos) == FALSE

\* chk_pos == IVec3::ZERO
is_center(chk_pos) == chk_pos = <<0, 0, 0>>

\* an empty slot answered with an error
missing_neighbor_fails(default, chk_index, pos) ==
    Lookup(NbOutOfBounds, chk_index, <<>>, FALSE, pos)

\* the arm None => Ok(self.default)
missing_neighbor(default, chk_index, pos) ==
    Lookup(NbOk(default), chk_index, <<>>, TRUE, pos)

\* Neighbors::internal_get; pos is in chunkspace
internal_get(chunks, default, pos) ==
    LET chk_pos == chkspace_pos_to_chk_pos(pos)
        chk_index == ivec3_to_1d(plus_one(chk_pos))
        neighbor_local == place_chkspace_pos_origin_on_neighbor_origin(pos)
    IN  IF is_center(chk_pos) THEN RejectedAt(pos)
        ELSE IF ~chk_index.ok THEN RejectedAt(pos)
        ELSE IF chk_index.val \notin Slots THEN RejectedAt(pos)
        ELSE IF chunks[chk_index.val] # None
             THEN Lookup(access_get(chunks[chk_index.val], neighbor_local),
                         chk_index.val, neighbor_local, FALSE, pos)
             ELSE missing_neighbor(default, chk_index.val, pos)

\* a get that skips the bounds check
Neighbors_get_unchecked(chunks, default, face, pos) ==
    internal_get(chunks, default, pos_3d(face, pos))

\* Neighbors::get
Neighbors_get(chunks, default, face, pos) ==
    IF ~is_in_bounds(pos)
    THEN Rejected
    ELSE internal_get(chunks, default, pos_3d(face, pos))

\* the voxels of the loaded chunks are solid and opaque here; only the default
\* sample, of a chunk that is not there, is transparent
is_transparent(sample) == sample.by = "default"

\* the mesher's decision for a voxel face: it is emitted only if the voxel
\* across it, as the sampler returned it, is transparent
face_emitted(result) == result.kind = "Ok" /\ is_transparent(result.sample)

\* a lookup that fills the slot it found empty
lookup_fills(chunks, lookup) ==
    IF lookup.read_default THEN [chunks EXCEPT ![lookup.slot] = "filled"] ELSE chunks

\* get and internal_get take &self: the bundle after the call is the bundle
\* before it
lookup_leaves(chunks, lookup) == chunks

\* ChunkPos::from(pos) == self.0.pos
is_own_pos(center, pos) == ChunkPos(pos) = center

\* NeighborsBuilder::set_neighbor: the result, the slot written and the slots after it
set_neighbor(chunks, center, pos, access) ==
    LET idx == ivec3_to_1d(plus_one(pos))
    IN  IF is_own_pos(center, pos)
        THEN [result |-> NbOutOfBounds, slot |-> NoSlot, chunks |-> chunks]
        ELSE IF ~idx.ok
        THEN [result |-> NbOutOfBounds, slot |-> NoSlot, chunks |-> chunks]
        ELSE IF idx.val \notin Slots
        THEN [result |-> NbOutOfBounds, slot |-> NoSlot, chunks |-> chunks]
        ELSE [result |-> NbOkUnit, slot |-> idx.val,
              chunks |-> [chunks EXCEPT ![idx.val] = access]]

\* the calls that look a sample up
LookupOps == {"get", "internal_get"}

\* NeighborsBuilder::new(pos, default)
NeighborsBuilderNew(pos) ==
    /\ nb_pc = "none"
    /\ nb_pc' = "builder"
    /\ nb_pos' = ChunkPos(pos)
    /\ nb_chunks' = [i \in Slots |-> None]
    /\ nb_default' = DefaultSample
    /\ nb_call' = NbCall("new", None, pos, NoLookup(NbNoRet), 1)
    /\ UNCHANGED <<nb_sets, quad_vars, greedy_vars, observer_vars, engine_vars>>

\* builder.set_neighbor(pos, access)
SetNeighbor(pos) ==
    /\ nb_pc = "builder"
    /\ nb_sets < MaxNeighbors
    /\ LET access == Access(pos)
           done == set_neighbor(nb_chunks, nb_pos, pos, access)
       IN  /\ nb_chunks' = done.chunks
           /\ nb_call' = NbCall("set_neighbor", None, pos,
                                Lookup(done.result, done.slot, <<>>, FALSE, <<>>), 1)
    /\ nb_sets' = nb_sets + 1
    /\ UNCHANGED <<nb_pc, nb_pos, nb_default, quad_vars, greedy_vars, observer_vars, engine_vars>>

\* builder.build()
NeighborsBuild ==
    /\ nb_pc = "builder"
    /\ nb_pc' = "built"
    /\ nb_call' = NbCall("build", None, <<>>, NoLookup(NbNoRet), 1)
    /\ UNCHANGED <<nb_pos, nb_chunks, nb_default, nb_sets, quad_vars, greedy_vars, observer_vars, engine_vars>>

\* neighbors.get(face, pos), a first time or again with the same arguments
NeighborsGet(face, pos) ==
    /\ nb_pc = "built"
    /\ \/ nb_call.name \notin LookupOps
       \/ nb_call.name = "get" /\ nb_call.face = face /\ nb_call.pos = pos /\ nb_call.nth = 1
    /\ LET lookup == Neighbors_get(nb_chunks, nb_default, face, pos)
       IN  /\ nb_chunks' = lookup_leaves(nb_chunks, lookup)
           /\ nb_call' = NbCall("get", face, pos, lookup,
                                IF nb_call.name = "get" THEN 2 ELSE 1)
    /\ UNCHANGED <<nb_pc, nb_pos, nb_default, nb_sets, quad_vars, greedy_vars, observer_vars, engine_vars>>

\* neighbors.internal_get(pos), called from within the meshing module
InternalGet(pos) ==
    /\ nb_pc = "built"
    /\ nb_call.name \notin LookupOps
    /\ LET lookup == internal_get(nb_chunks, nb_default, pos)
       IN  /\ nb_chunks' = lookup_leaves(nb_chunks, lookup)
           /\ nb_call' = NbCall("internal_get", None, pos, lookup, 1)
    /\ UNCHANGED <<nb_pc, nb_pos, nb_default, nb_sets, quad_vars, greedy_vars, observer_vars, engine_vars>>

\* the caller is done with the result of a lookup
LookupDone ==
    /\ nb_pc = "built"
    /\ nb_call.name \in LookupOps
    /\ nb_call' = NbCall("done", None, <<>>, NoLookup(NbNoRet), 1)
    /\ UNCHANGED <<nb_pc, nb_pos, nb_chunks, nb_default, nb_sets, quad_vars, greedy_vars, observer_vars, engine_vars>>

NeighborsNext ==
    \/ \E pos \in CenterPositions : NeighborsBuilderNew(pos)
    \/ \E pos \in SetNeighborPositions : SetNeighbor(pos)
    \/ NeighborsBuild
    \/ \E face \in Faces, pos \in FacePositions : NeighborsGet(face, pos)
    \/ \E pos \in ChunkspacePositions : InternalGet(pos)
    \/ LookupDone

NeighborsSpec == Init /\ [][NeighborsNext]_vars

(***************************************************************************)
(* Quads and the mesh they are added to (render/quad/mod.rs).              *)
(***************************************************************************)
\* consts::ROTATION_MASK, FLIP_UV_X, FLIP_UV_Y, OCCLUSION
ROTATION_MASK == 3
FLIP_UV_X == 4
FLIP_UV_Y == 8
OCCLUSION == 16

\* FaceTextureRotation::inner(): the four rotations, as numbers
Rotations == 0..ROTATION_MASK

\* RegistryId<TextureRegistry>::inner() of the textures quads are made with
TextureIds == {7}

\* QuadTextureData { texture, rotation, flip_uv_x, flip_uv_y }
QuadTextureData(texture, rotation, flip_uv_x, flip_uv_y) ==
    [texture |-> texture, rotation |-> rotation, flip_uv_x |-> flip_uv_x,
     flip_uv_y |-> flip_uv_y]

\* Quad { x, y, width, height }, with whole numbers for its f32 fields
Quad(x, y, width, height) == [x |-> x, y |-> y, width |-> width, height |-> height]

\* MeshableQuad { magnitude, face, quad, quad_tex }
MeshableQuad(mag, face, quad, quad_tex) ==
    [magnitude |-> mag, face |-> face, quad |-> quad, quad_tex |-> quad_tex]

\* the quads added to a mesh: on every face, with every rotation and flip, one
\* quad of two cells by one on the layer of the face
MeshableQuads ==
    {MeshableQuad(SIZE - 1, face, Quad(1, 2, 2, 1),
                  QuadTextureData(texture, rotation, flip_uv_x, flip_uv_y)) :
        face \in Faces, texture \in TextureIds, rotation \in Rotations,
        flip_uv_x \in BOOLEAN, flip_uv_y \in BOOLEAN}

\* a | b on u32
RECURSIVE bit_or(_, _)
bit_or(a, b) ==
    IF a = 0 THEN b
    ELSE IF b = 0 THEN a
    ELSE (IF a % 2 = 1 \/ b % 2 = 1 THEN 1 ELSE 0) + 2 * bit_or(a \div 2, b \div 2)

\* QuadTextureData::bitfield
bitfield(quad_tex) ==
    LET bits0 == bit_or(0, quad_tex.rotation)
        bits1 == IF quad_tex.flip_uv_x THEN bit_or(bits0, FLIP_UV_X) ELSE bits0
    IN  IF quad_tex.flip_uv_y THEN bit_or(bits1, FLIP_UV_Y) ELSE bits1

\* Quad::positions: the corners 0 (min.x, max.y), 1 (max.x, max.y),
\* 2 (min.x, min.y), 3 (max.x, min.y) on the plane of the face
positions(quad, face, mag) ==
    LET min == <<quad.x, quad.y>>
        max == <<quad.x + quad.width, quad.y + quad.height>>
        non_rotated == <<<<min[1], max[2]>>, <<max[1], max[2]>>,
                         <<min[1], min[2]>>, <<max[1], min[2]>>>>
    IN  [i \in 1..4 |->
            LET v == non_rotated[i]
            IN  CASE face = "Top" -> <<v[1], mag + 1, v[2]>>
                  [] face = "Bottom" -> <<v[1], mag, v[2]>>
                  [] face = "North" -> <<mag + 1, v[1], v[2]>>
                  [] face = "East" -> <<v[1], v[2], mag + 1>>
                  [] face = "South" -> <<mag, v[1], v[2]>>
                  [] face = "West" -> <<v[1], v[2], mag>>]

\* Face::normal(): the unit vector along the face's axis, on the face's side
normal(face) ==
    CASE face = "Top" -> <<0, 1, 0>>
      [] face = "Bottom" -> <<0, -1, 0>>
      [] face = "North" -> <<1, 0, 0>>
      [] face = "South" -> <<-1, 0, 0>>
      [] face = "East" -> <<0, 0, 1>>
      [] face = "West" -> <<0, 0, -1>>

\* indices with one winding for every face
indices_one_winding(face, idx) == [i \in 1..6 |-> <<0, 2, 1, 1, 2, 3>>[i] + idx]

\* add_to_mesh's indices: the pattern of the face, each index plus idx
indices(face, idx) ==
    LET pattern == IF face \in {"Bottom", "East", "North"}
                   THEN <<0, 2, 1, 1, 2, 3>>
                   ELSE <<0, 1, 2, 1, 3, 2>>
    IN  [i \in 1..6 |-> pattern[i] + idx]

\* bitfields with OCCLUSION on every vertex
bitfields_all_marked(quad_tex) ==
    [i \in 1..4 |-> bit_or(bitfield(quad_tex), OCCLUSION)]

\* add_to_mesh's bitfields: the bitfield of the quad on every vertex, with
\* OCCLUSION on the vertex of index 2
bitfields(quad_tex) ==
    <<bitfield(quad_tex), bitfield(quad_tex),
      bit_or(bitfield(quad_tex), OCCLUSION), bitfield(quad_tex)>>

\* the idx a mesher gives add_to_mesh: the vertices the mesh holds already
next_idx(mesh_vertices) == Len(mesh_vertices)

\* MeshableQuad::add_to_mesh(self, idx, mesh)
AddToMesh(quad) ==
    /\ Len(mesh_quads) < MaxQuads
    /\ LET idx == next_idx(mesh_positions)
       IN  /\ mesh_indices' = mesh_indices \o indices(quad.face, idx)
           /\ mesh_normals' = mesh_normals \o [i \in 1..4 |-> normal(quad.face)]
           /\ mesh_positions' =
                  mesh_positions \o positions(quad.quad, quad.face, quad.magnitude)
           /\ mesh_misc_data' = mesh_misc_data \o bitfields(quad.quad_tex)
           /\ mesh_textures' = mesh_textures \o [i \in 1..4 |-> quad.quad_tex.texture]
           /\ mesh_quads' = Append(mesh_quads, [quad |-> quad, idx |-> idx])
    /\ UNCHANGED <<neighbors_vars, greedy_vars, observer_vars, engine_vars>>

QuadNext == \E quad \in MeshableQuads : AddToMesh(quad)

QuadSpec == Init /\ [][QuadNext]_vars

(***************************************************************************)
(* Greedy merging of a face plane into quads (Quad::widen_until and        *)
(* Quad::heighten_until of render/quad/mod.rs, driven by the greedy        *)
(* mesher's raster scan).                                                  *)
(***************************************************************************)
\* Quad::widen: self.width += amount; assert!(self.width >= 0.0). The
\* amounts here are n * step with n and step not negative.
widen(self, amount) == [self EXCEPT !.width = @ + amount]

\* Quad::heighten: self.height += amount; assert!(self.height >= 0.0)
heighten(self, amount) == [self EXCEPT !.height = @ + amount]

\* the loop of widen_until and heighten_until, from n on:
\* while !f(n) && n < ceil { n += 1 }. The closure f is the function of its
\* answers.
RECURSIVE until(_, _, _)
until(n, ceil, f) ==
    IF ~f[n] /\ n < ceil THEN until(n + 1, ceil, f) ELSE n

\* a widen_until that widens by one step too few
widen_until_short(self, step, ceil, f) ==
    LET n == until(0, ceil, f) IN widen(self, (IF n > 0 THEN n - 1 ELSE 0) * step)

\* Quad::widen_until(self, step, ceil, f)
widen_until(self, step, ceil, f) == widen(self, until(0, ceil, f) * step)

\* a heighten_until that counts the row that stopped its loop
heighten_until_over(self, step, ceil, f) == heighten(self, (until(0, ceil, f) + 1) * step)

\* Quad::heighten_until(self, step, ceil, f)
heighten_until(self, step, ceil, f) == heighten(self, until(0, ceil, f) * step)

\* the cell the raster scan is at: row by row, each row from column 0
cursor_cell(cursor) == <<cursor % PlaneSize, cursor \div PlaneSize>>

\* whether a cell can join a quad of this signature: it is on the plane, not
\* consumed yet, and of the same signature
cell_matches(plane, consumed, signature, cell) ==
    /\ cell \in PlaneCells
    /\ cell \notin consumed
    /\ plane[cell] = signature

\* the cells a quad covers
quad_cells(quad) ==
    {<<column, row>> : column \in quad.x..(quad.x + quad.width - 1),
                       row \in quad.y..(quad.y + quad.height - 1)}

\* the quad the mesher grows from a starting cell: one cell wide and high,
\* then widened while the next cell of the row matches, then heightened while
\* the whole next row under it matches
grow_quad(plane, consumed, cell) ==
    LET signature == plane[cell]
        unit == Quad(cell[1], cell[2], 1, 1)
        widened ==
            widen_until(unit, 1, PlaneSize - 1 - cell[1],
                [n \in 0..PlaneSize |->
                    ~cell_matches(plane, consumed, signature, <<cell[1] + 1 + n, cell[2]>>)])
    IN  heighten_until(widened, 1, PlaneSize - 1 - cell[2],
            [n \in 0..PlaneSize |->
                \E column \in widened.x..(widened.x + widened.width - 1) :
                    ~cell_matches(plane, consumed, signature,
                                  <<column, cell[2] + 1 + n>>)])

\* the mesher is given a face plane
GreedyBegin ==
    /\ gr_pc = "none"
    /\ gr_pc' = "scan"
    /\ \E plane \in Planes : gr_plane' = plane
    /\ UNCHANGED <<gr_cursor, gr_consumed, gr_quads>>
    /\ UNCHANGED <<neighbors_vars, quad_vars, observer_vars, engine_vars>>

\* one cell of the raster scan: a hidden or consumed cell is passed over, any
\* other starts a quad, whose cells are marked consumed
GreedyCell ==
    /\ gr_pc = "scan"
    /\ gr_cursor < PlaneSize * PlaneSize
    /\ LET cell == cursor_cell(gr_cursor)
       IN  IF gr_plane[cell] = Hidden \/ cell \in gr_consumed
           THEN UNCHANGED <<gr_consumed, gr_quads>>
           ELSE LET quad == grow_quad(gr_plane, gr_consumed, cell)
                IN  /\ gr_quads' = Append(gr_quads, [quad |-> quad,
                                                     signature |-> gr_plane[cell]])
                    /\ gr_consumed' = gr_consumed \cup quad_cells(quad)
    /\ gr_cursor' = gr_cursor + 1
    /\ UNCHANGED <<gr_pc, gr_plane>>
    /\ UNCHANGED <<neighbors_vars, quad_vars, observer_vars, engine_vars>>

\* the scan has passed the last cell
GreedyEnd ==
    /\ gr_pc = "scan"
    /\ gr_cursor = PlaneSize * PlaneSize
    /\ gr_pc' = "done"
    /\ UNCHANGED <<gr_plane, gr_cursor, gr_consumed, gr_quads>>
    /\ UNCHANGED <<neighbors_vars, quad_vars, observer_vars, engine_vars>>

GreedyNext ==
    \/ GreedyBegin
    \/ GreedyCell
    \/ GreedyEnd

GreedySpec == Init /\ [][GreedyNext]_vars

(***************************************************************************)
(* The observer events: dispatch_move_events and update_observer_batches.  *)
(***************************************************************************)
\* Vec3::floor followed by as_ivec3, on a translation counted in halves
floor(translation) == [i \in 1..3 |-> div_euclid(translation[i], 2)]

\* the chunk a world-space block position lies in
ws_to_chunk_pos(ws_pos) == [i \in 1..3 |-> div_euclid(ws_pos[i], SIZE)]

transform_chunk_pos(translation) == ws_to_chunk_pos(floor(translation))

\* the Some arm of dispatch_move_events without the update of the recorded
\* chunk
dispatch_moved_chunk_kept(last_pos, translation) ==
    LET chunk_pos == transform_chunk_pos(translation) IN
    IF last_pos.ws_pos = translation
    THEN [last |-> last_pos, cmds |-> <<>>]
    ELSE IF chunk_pos = last_pos.chunk_pos
         THEN [last |-> LastPosition(translation, last_pos.chunk_pos), cmds |-> <<>>]
         ELSE [last |-> LastPosition(translation, last_pos.chunk_pos),
               cmds |-> <<TriggerCrossChunkBorder(
                            CrossChunkBorder(FALSE, last_pos.chunk_pos, chunk_pos))>>]
\* the Some arm of dispatch_move_events: the LastPosition it leaves and the
\* commands it queues
dispatch_moved(last_pos, translation) ==
    LET chunk_pos == transform_chunk_pos(translation) IN
    IF last_pos.ws_pos = translation
    THEN [last |-> last_pos, cmds |-> <<>>]
    ELSE IF chunk_pos = last_pos.chunk_pos
         THEN [last |-> LastPosition(translation, last_pos.chunk_pos), cmds |-> <<>>]
         ELSE [last |-> LastPosition(translation, chunk_pos),
               cmds |-> <<TriggerCrossChunkBorder(
                            CrossChunkBorder(FALSE, last_pos.chunk_pos, chunk_pos))>>]

\* the None arm: the component is inserted by a deferred command
dispatch_new(translation) ==
    LET chunk_pos == transform_chunk_pos(translation) IN
    [last |-> NoLastPosition,
     cmds |-> <<TriggerCrossChunkBorder(CrossChunkBorder(TRUE, chunk_pos, chunk_pos)),
                InsertLastPosition(LastPosition(translation, chunk_pos))>>]

\* ObserverSettings::bounding_box: the offsets of the chunks in range
bounding_box(range) == {<<dx, 0, 0>> : dx \in (0 - range)..range}

\* ObserverSettings::within_range
within_range(range, opos, cpos) ==
    [i \in 1..3 |-> cpos[i] - opos[i]] \in bounding_box(range)

\* the body of the loop over the owned batches without the test of
\* batch.chunks.contains
update_batch_all_added(range, event, chunks) ==
    LET kept == {cpos \in chunks : within_range(range, event.new_chunk, cpos)}
        in_box == {[i \in 1..3 |-> offset[i] + event.new_chunk[i]] :
                     offset \in bounding_box(range)}
    IN  [chunks |-> kept \cup in_box,
         removed |-> chunks \ kept,
         added |-> in_box,
         updated_batch |-> (chunks \ kept) \cup in_box # {}]
\* the body of the loop over the owned batches: the chunks of the batch
\* afterwards, the chunks membership.remove and membership.add are called
\* with, and updated_batch
update_batch(range, event, chunks) ==
    LET kept == {cpos \in chunks : within_range(range, event.new_chunk, cpos)}
        in_box == {[i \in 1..3 |-> offset[i] + event.new_chunk[i]] :
                     offset \in bounding_box(range)}
    IN  [chunks |-> kept \cup in_box,
         removed |-> chunks \ kept,
         added |-> in_box \ kept,
         updated_batch |-> (chunks \ kept) \cup (in_box \ kept) # {}]

\* BatchMembership::remove and BatchMembership::add
membership_remove(membership, cpos, batch) == membership \ {<<cpos, batch>>}
membership_add(membership, cpos, batch) == membership \cup {<<cpos, batch>>}

RECURSIVE membership_remove_all(_, _, _)
membership_remove_all(membership, chunks, batch) ==
    IF chunks = {} THEN membership
    ELSE LET cpos == CHOOSE c \in chunks : TRUE IN
         membership_remove_all(membership_remove(membership, cpos, batch),
                               chunks \ {cpos}, batch)

RECURSIVE membership_add_all(_, _, _)
membership_add_all(membership, chunks, batch) ==
    IF chunks = {} THEN membership
    ELSE LET cpos == CHOOSE c \in chunks : TRUE IN
         membership_add_all(membership_add(membership, cpos, batch),
                            chunks \ {cpos}, batch)

\* the membership after the loop over the batches in owned
RECURSIVE membership_after(_, _, _)
membership_after(membership, owned, updates) ==
    IF owned = {} THEN membership
    ELSE LET batch == CHOOSE b \in owned : TRUE IN
         membership_after(
             membership_add_all(
                 membership_remove_all(membership, updates[batch].removed, batch),
                 updates[batch].added, batch),
             owned \ {batch}, updates)

\* an observer is spawned with its settings and the batches it owns
ObserverSpawn ==
    /\ ob_pc = "none"
    /\ ob_pc' = "spawned"
    /\ \E range \in 0..1, owned \in SUBSET Batches, translation \in ObserverTranslations :
          /\ ob_range' = range
          /\ ob_owned' = owned
          /\ ob_translation' = translation
    /\ UNCHANGED <<ob_last, ob_chunks, ob_membership, ob_cmds, ob_run, ob_update>>
    /\ UNCHANGED <<neighbors_vars, quad_vars, greedy_vars, engine_vars>>

\* the observer is moved
ObserverMove ==
    /\ ob_pc = "spawned"
    /\ \E translation \in ObserverTranslations \ {ob_translation} :
          ob_translation' = translation
    /\ ob_run' = [ob_run EXCEPT !.ran = FALSE]
    /\ UNCHANGED <<ob_pc, ob_range, ob_last, ob_owned, ob_chunks, ob_membership, ob_cmds,
                   ob_update>>
    /\ UNCHANGED <<neighbors_vars, quad_vars, greedy_vars, engine_vars>>

\* one run of the system dispatch_move_events; the commands of the run
\* before it have been applied
DispatchMoveEvents ==
    /\ ob_pc = "spawned"
    /\ ob_cmds = <<>>
    /\ LET run == IF ob_last.some THEN dispatch_moved(ob_last, ob_translation)
                  ELSE dispatch_new(ob_translation)
           events == IF run.cmds = <<>> THEN <<>> ELSE <<run.cmds[1].event>>
       IN  /\ ob_last' = run.last
           /\ ob_cmds' = run.cmds
           /\ ob_run' = [ran |-> TRUE, again |-> ob_run.ran, before |-> ob_last,
                         translation |-> ob_translation, triggered |-> events,
                         reported |-> IF ob_run.triggered = <<>> THEN ob_run.reported
                                      ELSE ob_run.triggered[1],
                         any_reported |-> ob_run.any_reported \/ ob_run.triggered # <<>>]
    /\ UNCHANGED <<ob_pc, ob_range, ob_translation, ob_owned, ob_chunks, ob_membership,
                   ob_update>>
    /\ UNCHANGED <<neighbors_vars, quad_vars, greedy_vars, engine_vars>>

\* the queued trigger of CrossChunkBorder is applied: the observer system
\* update_observer_batches runs on the event
UpdateObserverBatches ==
    /\ ob_cmds # <<>>
    /\ Head(ob_cmds).cmd = "trigger"
    /\ LET event == Head(ob_cmds).event
           updates == [b \in Batches |-> update_batch(ob_range, event, ob_chunks[b])]
           update_cached_flags ==
               UNION {updates[b].removed \cup updates[b].added : b \in ob_owned}
       IN  /\ ob_chunks' = [b \in Batches |->
                               IF b \in ob_owned THEN updates[b].chunks ELSE ob_chunks[b]]
           /\ ob_membership' = membership_after(ob_membership, ob_owned, updates)
           /\ ob_cmds' = IF update_cached_flags # {}
                         THEN Append(Tail(ob_cmds),
                                     TriggerUpdateCachedChunkFlags(update_cached_flags))
                         ELSE Tail(ob_cmds)
           /\ ob_update' = [ran |-> TRUE, event |-> event, before |-> ob_chunks,
                            removed |-> UNION {{<<c, b>> : c \in updates[b].removed} :
                                                 b \in ob_owned},
                            added |-> UNION {{<<c, b>> : c \in updates[b].added} :
                                               b \in ob_owned},
                            ticked |-> {b \in ob_owned : updates[b].updated_batch},
                            sent |-> update_cached_flags # {},
                            flags |-> update_cached_flags]
    /\ UNCHANGED <<ob_pc, ob_range, ob_translation, ob_last, ob_owned, ob_run>>
    /\ UNCHANGED <<neighbors_vars, quad_vars, greedy_vars, engine_vars>>

\* the queued insert of the LastPosition component is applied
ApplyInsertLastPosition ==
    /\ ob_cmds # <<>>
    /\ Head(ob_cmds).cmd = "insert"
    /\ ob_last' = Head(ob_cmds).last
    /\ ob_cmds' = Tail(ob_cmds)
    /\ UNCHANGED <<ob_pc, ob_range, ob_translation, ob_owned, ob_chunks, ob_membership,
                   ob_run, ob_update>>
    /\ UNCHANGED <<neighbors_vars, quad_vars, greedy_vars, engine_vars>>

\* the queued trigger of UpdateCachedChunkFlags is applied
ApplyUpdateCachedChunkFlags ==
    /\ ob_cmds # <<>>
    /\ Head(ob_cmds).cmd = "flags"
    /\ ob_cmds' = Tail(ob_cmds)
    /\ UNCHANGED <<ob_pc, ob_range, ob_translation, ob_last, ob_owned, ob_chunks,
                   ob_membership, ob_run, ob_update>>
    /\ UNCHANGED <<neighbors_vars, quad_vars, greedy_vars, engine_vars>>

ObserverNext ==
    \/ ObserverSpawn
    \/ ObserverMove
    \/ DispatchMoveEvents
    \/ UpdateObserverBatches
    \/ ApplyInsertLastPosition
    \/ ApplyUpdateCachedChunkFlags

ObserverSpec == Init /\ [][ObserverNext]_vars

(***************************************************************************)
(* Properties of the builder.                                              *)
(***************************************************************************)
\* the last builder call was a queue_chunk that returned
QueueChunkReturned == last_call.op = "queue_chunk" /\ ~last_call.panicked

\* the last builder call was a finished_meshes, and no other call has begun
FinishedMeshesReturned == last_call.op = "finished_meshes" /\ builder_pc = "idle"

\* C1: the id queue_chunk returns is not in the pending set as it was just
\* before the call.
C1_ReturnedIdNotPending ==
    QueueChunkReturned => last_call.ret \notin last_call.pre

\* a queue_chunk returned while another task was pending, its mesh built
C1_Witness ==
    /\ QueueChunkReturned
    /\ last_call.pre # {}
    /\ \E w \in Workers : worker_pc[w] = "send"

\* C2: queue_chunk returns the smallest non-negative integer not in the
\* pending set at the time of the call (0 for the empty set), so an id that
\* finished_meshes removed is handed out again when no smaller one is free.
C2_SmallestFreeId ==
    QueueChunkReturned =>
        /\ last_call.ret \in Nat
        /\ last_call.ret \notin last_call.pre
        /\ \A smaller \in 0..(last_call.ret - 1) : smaller \in last_call.pre
        /\ last_call.pre = {} => last_call.ret = 0

\* the second task got id 0: the first task had it (the first call finds the
\* set empty), and finished_meshes removed it in between
C2_Witness ==
    /\ QueueChunkReturned
    /\ task_count = 2
    /\ last_call.ret = 0

\* the mesh of task t was built from a command that was queued, that one
\* worker received once, and for which that worker sent one result
ProcessedByExactlyOne(t) ==
    /\ t \in 1..task_count
    /\ picks[t] = 1
    /\ Cardinality(picked_by[t]) = 1
    /\ sends[t] = 1
    /\ sent_by[t] = picked_by[t]

\* C3: every result finished_meshes returns belongs to a command queued before
\* and processed to the end by exactly one worker; no command is executed by
\* two workers and no task yields more than one result.
C3_ResultOfExactlyOneWorker ==
    /\ \A i \in DOMAIN meshes : ProcessedByExactlyOne(meshes[i].mesh)
    /\ last_call.op = "finished_meshes" =>
           \A i \in DOMAIN last_call.ret : ProcessedByExactlyOne(last_call.ret[i].mesh)
    /\ \A t \in Tasks : picks[t] <= 1 /\ Cardinality(picked_by[t]) <= 1 /\ sends[t] <= 1

\* finished_meshes returned two meshes that two different workers built
C3_Witness ==
    /\ FinishedMeshesReturned
    /\ Len(last_call.ret) = 2
    /\ sent_by[1] # sent_by[2]

\* batch is one ChunkMesh per output of taken, in order
OneMeshPerResult(batch, taken) ==
    /\ Len(batch) = Len(taken)
    /\ \A i \in DOMAIN taken : batch[i] = [pos |-> taken[i].pos, mesh |-> taken[i].output]

\* C4: finished_meshes returns one mesh per result it found in the result
\* queue, takes those results out of the queue and removes exactly their ids
\* from the pending set; the other ids stay pending.
C4_FinishedMeshesRemovesReturned ==
    /\ builder_pc = "finished_meshes" =>
           /\ OneMeshPerResult(meshes, fm_taken)
           /\ pending_tasks = fm_pre \ Ids(fm_taken)
    /\ FinishedMeshesReturned =>
           /\ OneMeshPerResult(last_call.ret, last_call.taken)
           /\ pending_tasks = last_call.pre \ Ids(last_call.taken)
           /\ \A i \in DOMAIN last_call.taken :
                  \A j \in DOMAIN mesh_queue : mesh_queue[j] # last_call.taken[i]

\* finished_meshes returned a mesh while the result of another task was not
\* there yet, and that task's id is still pending
C4_Witness ==
    /\ FinishedMeshesReturned
    /\ Len(last_call.ret) = 1
    /\ last_call.pre \ Ids(last_call.taken) # {}
    /\ pending_tasks # {}

\* C5: with no result waiting in the result queue, finished_meshes returns an
\* empty batch and leaves the pending set unchanged, and it never waits: its
\* try_recv can always be taken, however many tasks are queued or being built.
C5_EmptyBatchWithoutWaiting ==
    /\ [](builder_pc = "finished_meshes" => ENABLED FinishedMeshesTryRecv)
    /\ [][(FinishedMeshesTryRecv /\ fm_taken = <<>> /\ mesh_queue = <<>>) =>
              /\ builder_pc' = "idle"
              /\ last_call'.op = "finished_meshes"
              /\ last_call'.ret = <<>>
              /\ pending_tasks' = pending_tasks
              /\ pending_tasks' = fm_pre]_vars

\* finished_meshes returned an empty batch while one task was being built and
\* another was still queued
C5_Witness ==
    /\ FinishedMeshesReturned
    /\ last_call.ret = <<>>
    /\ pending_tasks # {}
    /\ \E w \in Workers : worker_pc[w] = "build"
    /\ cmd_queue # <<>>

\* C6: before shutdown, whatever the pending set, the command queue and the
\* workers are, queue_chunk adds exactly one id to the pending set, appends
\* exactly one Build command with that id to the command queue and returns it.
C6_QueueChunkUnconditional ==
    [][(\E c \in Chunks : QueueChunk(c)) =>
          \E id \in pending_tasks' \ pending_tasks :
              /\ pending_tasks' = pending_tasks \cup {id}
              /\ Len(cmd_queue') = Len(cmd_queue) + 1
              /\ SubSeq(cmd_queue', 1, Len(cmd_queue)) = cmd_queue
              /\ cmd_queue'[Len(cmd_queue')].kind = "Build"
              /\ cmd_queue'[Len(cmd_queue')].id = id
              /\ ~last_call'.panicked
              /\ last_call'.ret = id]_vars

\* shutdown's two loops are over: it returned, or a join's unwrap panicked
ShutdownJoinsOver ==
    \/ builder_pc = "returned"
    \/ builder_pc = "panicked_shutdown" /\ shutdown_sent = ShutdownsToSend

\* every worker thread has ended
AllWorkersEnded == \A w \in Workers : worker_pc[w] \in {"exited", "panicked"}

ShutdownsLeft == {i \in DOMAIN cmd_queue : cmd_queue[i].kind = "Shutdown"}

\* C7: shutdown sends exactly one Shutdown command per worker and returns only
\* after every worker thread has terminated; each worker consumes exactly one
\* Shutdown command and none is left in the command queue.
C7_ShutdownOnePerWorker ==
    /\ builder_pc \in {"shutdown_join", "returned"} => shutdown_sent = NumWorkers
    /\ builder_pc = "returned" => AllWorkersEnded
    /\ (ShutdownJoinsOver /\ AllWorkersEnded) =>
           /\ \A w \in Workers : shutdowns_recv[w] = 1
           /\ ShutdownsLeft = {}

\* the Build command of task t is in the command queue
Queued(t) ==
    \E i \in DOMAIN cmd_queue : cmd_queue[i].kind = "Build" /\ cmd_queue[i].task = t

\* C8: once queued, a Build command runs to completion: with the workers
\* scheduled fairly, a worker picks it up, builds it and puts its result on
\* the result queue.
C8_QueuedBuildCompletes ==
    \A t \in Tasks : Queued(t) ~> (picks[t] = 1 /\ sends[t] = 1)

\* C9: shutdown never interrupts a build in progress: a build a worker had
\* picked up when shutdown was called is finished, and its result is sent,
\* before that worker ends (and so before its join returns).
C9_ShutdownLetsBuildsFinish ==
    \A t \in at_shutdown :
        \A w \in picked_by[t] :
            worker_pc[w] \in {"exited", "panicked"} => sends[t] = 1

\* worker w can go on: it holds a command, or it waits and a command is there
CanRun(w) ==
    \/ worker_pc[w] \in {"build", "send"}
    \/ worker_pc[w] = "recv" /\ cmd_queue # <<>>

\* C10: when the chunk of a Build command no longer exists as a worker builds
\* it, or the mesher returns an error, that worker's loop is aborted: no result
\* is sent for the task and the worker receives no other command, while the
\* other workers keep running.
C10_FailedBuildAbortsWorker ==
    /\ [](\A v \in Workers : CanRun(v) => ENABLED WorkerStep(v))
    /\ [][\A w \in Workers :
            /\ (WorkerBuild(w) /\ worker_cmd[w].chunk_ref \notin chunk_alive) =>
                   /\ worker_pc'[w] = "panicked"
                   /\ failed_build'[w].kind = "Unloaded"
                   /\ failed_build'[w].task = worker_cmd[w].task
            /\ (WorkerBuild(w) /\ failed_build'[w] # failed_build[w]) =>
                   /\ worker_pc'[w] = "panicked"
                   /\ failed_build'[w].task = worker_cmd[w].task
                   /\ sends'[worker_cmd[w].task] = 0
                   /\ mesh_queue' = mesh_queue
                   /\ cmd_queue' = cmd_queue
                   /\ \A v \in Workers \ {w} :
                          worker_pc'[v] = worker_pc[v] /\ worker_cmd'[v] = worker_cmd[v]
            /\ worker_pc[w] = "panicked" =>
                   /\ worker_pc'[w] = "panicked"
                   /\ worker_cmd'[w] = NoCmd
                   /\ shutdowns_recv'[w] = shutdowns_recv[w]
                   /\ \A t \in Tasks : (w \in picked_by'[t]) = (w \in picked_by[t])
                   /\ failed_build[w].task # 0 => sends'[failed_build[w].task] = 0
         ]_vars

\* a build failed and aborted its worker, and another worker then built a task
\* queued later and sent its result
C10_Witness ==
    \E w \in Workers : \E v \in Workers \ {w} :
        /\ worker_pc[w] = "panicked"
        /\ failed_build[w].kind \in {"Unloaded", "MesherError"}
        /\ sends[failed_build[w].task] = 0
        /\ \E t \in Tasks : t > failed_build[w].task /\ sent_by[t] = {v}

\* C11: an id leaves the pending set only when finished_meshes takes a result
\* carrying that id out of the result queue; no other step of the builder or
\* of a worker removes one, and the id of a task whose build failed stays
\* pending from then on.
C11_IdLeavesOnlyWhenCollected ==
    /\ [][\A id \in pending_tasks \ pending_tasks' :
              /\ FinishedMeshesTryRecv
              /\ mesh_queue # <<>>
              /\ Head(mesh_queue).id = id]_vars
    /\ [](\A w \in Workers :
              failed_build[w].task # 0 => failed_build[w].id \in pending_tasks)

\* a build failed; finished_meshes then returned the mesh of the other task,
\* and the id of the failed one is still pending
C11_Witness ==
    /\ FinishedMeshesReturned
    /\ Len(last_call.ret) = 1
    /\ \E w \in Workers :
           /\ failed_build[w].task # 0
           /\ failed_build[w].task # last_call.ret[1].mesh
           /\ failed_build[w].id \in pending_tasks

\* C12: results come in the order the workers finish, not in the order of
\* submission: a worker holding a built mesh never waits for another worker
\* before it sends, its result goes behind those already in the result queue,
\* and finished_meshes returns the queue front first, so the result of a task
\* queued later can be returned before that of a task queued earlier.
C12_ResultsInCompletionOrder ==
    /\ [](\A w \in Workers : worker_pc[w] = "send" => ENABLED WorkerSend(w))
    /\ [][\A w \in Workers :
            (WorkerSend(w) /\ ~BuilderDropped) =>
                mesh_queue' = Append(mesh_queue, WorkerOutput(worker_cmd[w]))]_vars
    /\ [][(FinishedMeshesTryRecv /\ mesh_queue # <<>>) =>
            meshes' = Append(meshes, ChunkMesh(Head(mesh_queue)))]_vars

\* finished_meshes returned the mesh of the second task before the mesh of the
\* first, in one batch
C12_Witness ==
    /\ FinishedMeshesReturned
    /\ Len(last_call.ret) = 2
    /\ last_call.ret[1].mesh = 2
    /\ last_call.ret[2].mesh = 1

(***************************************************************************)
(* Properties of ChunkRef.                                                 *)
(***************************************************************************)
\* no Arc<Chunk> of chunk c is left: the world dropped its own, and no thread
\* is inside a call on c
ChunkGone(c) ==
    /\ c \notin chunk_alive
    /\ \A t \in Threads : thread_pc[t] = "idle" \/ thread_chunk[t] # c

\* thread t holds no access to a container of any chunk
HoldsNothing(t) ==
    \A c \in Chunks : voxels_held[c][t] = "none" /\ models_held[c][t] = "none"

\* thread t took a step of the call it is in
Moved(t) ==
    <<thread_pc[t], thread_ret[t], thread_op[t]>>'
        # <<thread_pc[t], thread_ret[t], thread_op[t]>>

\* thread t is back from the call `op`, which returned `ret`
Returned(t, op, ret) ==
    thread_pc[t] = "idle" /\ thread_op[t] = op /\ thread_ret[t] = ret

\* C13: with_access and with_read_access on a ChunkRef whose chunk is gone
\* return Unloaded at once: the closure is not called, no access to a
\* container is acquired and the dirty flag is not changed.  The same holds of
\* a with_access that finds the dirty flag gone after it upgraded the chunk.
C13_UnloadedWithoutClosure ==
    [][\A t \in Threads :
         /\ \A c \in Chunks :
              (Moved(t) /\ ChunkGone(c)
                  /\ (WithAccessCall(t, c) \/ WithReadAccessCall(t, c))) =>
                  /\ thread_ret'[t] = Unloaded
                  /\ thread_pc'[t] = "idle"
                  /\ voxels_held' = voxels_held
                  /\ models_held' = models_held
                  /\ changed' = changed
         /\ (thread_ret'[t] = Unloaded /\ Moved(t)) =>
                  /\ thread_pc[t] \in {"idle", "wa_changed"}
                  /\ thread_pc'[t] = "idle"
                  /\ HoldsNothing(t) /\ HoldsNothing(t)'
                  /\ voxels_held' = voxels_held
                  /\ models_held' = models_held
                  /\ changed' = changed
      ]_vars

\* the chunk is gone and was never marked dirty; with_access returned Unloaded
\* to one thread and with_read_access returned Unloaded to the other
C13_Witness ==
    /\ \A c \in Chunks : ChunkGone(c) /\ ~changed[c]
    /\ Returned("t1", "with_access", Unloaded)
    /\ Returned("t2", "with_read_access", Unloaded)

\* C14: a with_access that gets as far as its accesses has set the dirty flag
\* of its chunk: the flag is true before the closure runs and when the call
\* returns, whether or not the closure made a set.
C14_WriteAccessMarksDirty ==
    /\ [](\A t \in Threads :
              thread_pc[t] \in {"wa_voxels", "wa_models", "wa_closure", "wa_set_models"} =>
                  changed[thread_chunk[t]])
    /\ [][\A t \in Threads :
            /\ WithAccessModels(t) => changed[thread_chunk[t]]
            /\ WithAccessReturn(t) => changed'[thread_chunk[t]]]_vars

\* a with_access returned Ok and no set was ever made; the chunk is dirty
C14_Witness ==
    /\ set_count = 0
    /\ \E t \in Threads : Returned(t, "with_access", OkRet)
    /\ \A t \in Threads : thread_op[t] \in {None, "with_access", "with_read_access"}
    /\ \A c \in Chunks : changed[c]

\* C15: no step of a with_read_access changes the dirty flag, whether the call
\* returns Ok or Unloaded; a mesh build, which reads its chunk through
\* with_read_access, never marks it dirty.
C15_ReadAccessNeverMarks ==
    [][\A t \in Threads :
         (thread_op'[t] = "with_read_access" /\ Moved(t)) => changed' = changed]_vars

\* a with_read_access returned Ok, the chunk was unloaded, another
\* with_read_access returned Unloaded, and the chunk was never marked dirty
C15_Witness ==
    /\ Returned("t1", "with_read_access", OkRet)
    /\ Returned("t2", "with_read_access", Unloaded)
    /\ \A c \in Chunks : ~changed[c]

\* C16: treat_as_changed returns Unloaded, and changes nothing, when the chunk
\* has been unloaded; otherwise it sets the dirty flag to true and returns Ok.
\* It acquires no access to the voxel or the model container.
C16_TreatAsChanged ==
    [][\A t \in Threads : \A c \in Chunks :
         (Moved(t) /\ TreatAsChanged(t, c)) =>
            /\ c \notin chunk_alive => (thread_ret'[t] = Unloaded /\ changed' = changed)
            /\ ChunkGone(c) => thread_ret'[t] = Unloaded
            /\ c \in chunk_alive => (thread_ret'[t] = OkRet /\ changed'[c])
            /\ voxels_held' = voxels_held
            /\ models_held' = models_held
            /\ thread_pc'[t] = "idle"
      ]_vars

\* treat_as_changed marked the chunk dirty for one thread; the chunk was then
\* unloaded and treat_as_changed returned Unloaded to the other
C16_Witness ==
    /\ Returned("t1", "treat_as_changed", OkRet)
    /\ Returned("t2", "treat_as_changed", Unloaded)
    /\ \A c \in Chunks : changed[c] /\ ChunkGone(c)
    /\ \A t \in Threads : HoldsNothing(t)

\* the Option<BlockModel> a cell holds once `model` is written to it
ModelWritten(model) == IF model.variant = "Block" THEN model.block ELSE "none"

\* C17: in a write session, a get of the position the session set last returns
\* the id and the model of that set, for every in-bounds position and every
\* value; a set with model None makes get return model None, whatever model the
\* cell held before.
C17_SetThenGet ==
    [][\A t \in Threads : \A pos \in Cells :
         (Moved(t) /\ thread_set[t] # NoSet /\ thread_set[t][1].pos = pos
             /\ Get(t, pos)) =>
             /\ thread_ret'[t].kind = "Output"
             /\ thread_ret'[t].id = thread_set[t][1].data.id
             /\ thread_ret'[t].model = ModelWritten(thread_set[t][1].data.model)
      ]_vars

\* a session set a value with model None at the last cell of the chunk, which
\* held a block model, and its get of that cell returned model None
C17_Witness ==
    \E t \in Threads :
        /\ thread_pc[t] = "wa_closure"
        /\ thread_set[t] # NoSet
        /\ thread_set[t][1].pos = <<SIZE - 1, SIZE - 1, SIZE - 1>>
        /\ thread_set[t][1].data.model = NoModel
        /\ thread_set[t][1].was.model \in BlockModels
        /\ thread_ret[t] = OkOutput(ChunkVoxelOutput(thread_set[t][1].data.id, "none"))

\* the positions outside [0, SIZE)^3 that the threads pass
Outside == (Positions \cup SessionPositions) \ Cells

\* C18: get and set at a position outside [0, SIZE)^3 return OutOfBounds and
\* leave the id container and the model container as they are; no set fails
\* after it wrote the id, so none writes the id without the model.
C18_OutOfBoundsNoMutation ==
    /\ [](\A t \in Threads :
              thread_pc[t] = "wa_set_models" => thread_set[t][1].pos \in Cells)
    /\ [][\A t \in Threads :
            Moved(t) =>
              /\ thread_pc[t] \in {"wa_closure", "ra_closure"} =>
                    \A pos \in Outside :
                        /\ (\E data \in Inputs : Set(t, pos, data)) =>
                               /\ thread_ret'[t] = OutOfBounds("set")
                               /\ thread_pc'[t] = "wa_closure"
                               /\ voxels' = voxels /\ models' = models
                        /\ (Get(t, pos) \/ ReadGet(t, pos)) =>
                               /\ thread_ret'[t] = OutOfBounds("get")
                               /\ voxels' = voxels /\ models' = models
              /\ thread_ret'[t].kind = "OutOfBounds" =>
                     /\ thread_pc[t] \in {"wa_closure", "ra_closure"}
                     /\ voxels' = voxels /\ models' = models
              /\ SetModels(t) => thread_ret'[t] = OkSet
       ]_vars

\* a set outside the chunk returned OutOfBounds in a session that had set a
\* cell before, and that cell still holds what the session wrote
C18_Witness ==
    \E t \in Threads :
        /\ thread_pc[t] = "wa_closure"
        /\ thread_ret[t] = OutOfBounds("set")
        /\ thread_set[t] # NoSet
        /\ \A c \in Chunks :
               /\ voxels[c][thread_set[t][1].pos] = thread_set[t][1].data.id
               /\ models[c][thread_set[t][1].pos] = ModelWritten(thread_set[t][1].data.model)

\* no thread is between the two container writes of a set of cell pos of chunk c
NoSetInProgress(c, pos) ==
    \A t \in Threads :
        ~(thread_pc[t] = "wa_set_models" /\ thread_chunk[t] = c
            /\ thread_set[t][1].pos = pos)

IsGet == nb_call.name = "get"

\* both coordinates of a face-local position lie in lo..hi
CoordsIn(pos, lo, hi) == pos[1] \in lo..hi /\ pos[2] \in lo..hi

\* a face-local position in the chunk's face or in the halo of one cell around it
InHalo(pos) == CoordsIn(pos, -1, SIZE)

\* the offset of the chunk a point in chunkspace lies in: the o with
\* SIZE * o <= point < SIZE * o + SIZE on every axis
OffsetOfPoint(point) ==
    CHOOSE o \in Offsets : \A i \in 1..3 : point[i] - SIZE * o[i] \in 0..(SIZE - 1)

\* the slot of an offset in {-1,0,1}^3: x runs fastest, then y, then z
SlotOfOffset(o) == (o[1] + 1) + 3 * (o[2] + 1) + 9 * (o[3] + 1)

\* the slot of the center chunk
CenterSlot == SlotOfOffset(<<0, 0, 0>>)

\* the non-zero components of an offset: 1 for a face neighbor, 2 for an edge
\* neighbor, 3 for a corner neighbor
Rank(o) == Cardinality({i \in 1..3 : o[i] # 0})

\* the coordinates of a face-local position that lie in the halo
HaloCoords(pos) == Cardinality({i \in 1..2 : pos[i] \in {-1, SIZE}})

\* the statement of C21 with the range [-1, SIZE+1]: no position with both
\* coordinates in that range is answered with OutOfBounds
C21_HaloUpToSizePlusOne ==
    (IsGet /\ CoordsIn(nb_call.pos, -1, SIZE + 1)) => nb_call.result.kind # "OutOfBounds"

\* C21, with the range the code has: for every face and every face-local
\* position with both coordinates in [-1, SIZE], -1 and SIZE included,
\* Neighbors::get does not return OutOfBounds and reads the slot of a face,
\* edge or corner neighbor; a position with a coordinate of SIZE+1 is
\* answered with OutOfBounds.
C21_HaloAccepted ==
    IsGet =>
        /\ InHalo(nb_call.pos) =>
               /\ nb_call.result.kind # "OutOfBounds"
               /\ nb_call.slot \in Slots \ {CenterSlot}
        /\ (nb_call.pos[1] = SIZE + 1 \/ nb_call.pos[2] = SIZE + 1) =>
               nb_call.result = NbOutOfBounds

\* a query at the corner (-1, SIZE) of the halo was answered by the accessor
\* of a neighbor
C21_Witness ==
    /\ IsGet
    /\ nb_call.pos = <<-1, SIZE>>
    /\ nb_call.result.kind = "Ok"
    /\ nb_call.forwarded # <<>>

\* C22: for every face, Neighbors::get returns OutOfBounds for every position
\* with a coordinate of -2 or lower or of SIZE+2 or higher, and it does so
\* before it reads a slot, asks an accessor or reads the default sample.
C22_BeyondHaloRejected ==
    (IsGet /\ \E i \in 1..2 : (nb_call.pos[i] <= -2 \/ nb_call.pos[i] >= SIZE + 2)) =>
        /\ nb_call.result = NbOutOfBounds
        /\ nb_call.slot = NoSlot
        /\ nb_call.forwarded = <<>>
        /\ ~nb_call.read_default
        /\ nb_call.point = <<>>

\* a query two cells below the chunk on one axis and inside it on the other
\* was rejected, on a bundle that holds an accessor
C22_Witness ==
    /\ IsGet
    /\ nb_call.pos = <<-2, SIZE - 1>>
    /\ nb_call.result = NbOutOfBounds
    /\ \E i \in Slots : nb_chunks[i] # None

\* C23: if the slot a query in the halo or the face projects into holds no
\* accessor, the query returns the default sample of the bundle, never an
\* error, for every face and every such position.
C23_MissingNeighborDefault ==
    (IsGet /\ InHalo(nb_call.pos)) =>
        /\ nb_call.point # <<>>
        /\ nb_chunks[SlotOfOffset(OffsetOfPoint(nb_call.point))] = None =>
               /\ nb_call.result = NbOk(nb_default)
               /\ nb_call.forwarded = <<>>

\* a query into the empty slot of a corner neighbor returned the default
\* sample while another slot of the bundle holds an accessor
C23_Witness ==
    /\ IsGet
    /\ nb_call.pos = <<SIZE, SIZE>>
    /\ nb_call.result = NbOk(DefaultSample)
    /\ \E i \in Slots : nb_chunks[i] # None

\* C24: for every face and every accepted position, with P the projected
\* point, Neighbors::get reads the slot of the offset o = floor(P / SIZE) and,
\* when the slot holds an accessor, asks it for the position P - SIZE * o,
\* every component of which lies in [0, SIZE), and returns its answer; a
\* position with a coordinate at -1 or SIZE resolves to an edge or corner
\* neighbor, every other one to the face neighbor.
C24_OffsetAndRemainder ==
    (IsGet /\ InHalo(nb_call.pos) /\ nb_call.point # <<>>) =>
        LET P == nb_call.point
            o == OffsetOfPoint(P)
        IN  /\ nb_call.slot = SlotOfOffset(o)
            /\ Rank(o) = 1 + HaloCoords(nb_call.pos)
            /\ nb_chunks[nb_call.slot] # None =>
                   /\ \A i \in 1..3 :
                          /\ nb_call.forwarded[i] \in 0..(SIZE - 1)
                          /\ SIZE * o[i] + nb_call.forwarded[i] = P[i]
                   /\ nb_call.result = NbOk(Sample(nb_chunks[nb_call.slot], nb_call.forwarded))

\* a query below the chunk at (-1, SIZE-1) was answered by the accessor of the
\* edge neighbor at (-1, -1, 0), asked for its cell (SIZE-1, SIZE-1, SIZE-1)
C24_Witness ==
    /\ IsGet
    /\ nb_call.face = "Bottom"
    /\ nb_call.pos = <<-1, SIZE - 1>>
    /\ nb_call.slot = SlotOfOffset(<<-1, -1, 0>>)
    /\ nb_call.forwarded = <<SIZE - 1, SIZE - 1, SIZE - 1>>
    /\ nb_call.result.kind = "Ok"

\* the faces on the positive side of their axis, and the axis of a face
\* (1 = x, 2 = y, 3 = z)
PositiveFaces == {"Top", "North", "East"}
AxisOf(face) ==
    CASE face \in {"North", "South"} -> 1
      [] face \in {"Top", "Bottom"} -> 2
      [] face \in {"East", "West"} -> 3

\* the statement of C25 with a magnitude of 0 on the negative side: the
\* projected point has 0 on the axis of a face that points in the negative
\* direction and SIZE on the axis of one that points in the positive direction
C25_MagnitudeZeroOrSize ==
    (IsGet /\ nb_call.point # <<>>) =>
        nb_call.point[AxisOf(nb_call.face)] =
            (IF nb_call.face \in PositiveFaces THEN SIZE ELSE 0)

\* C25, with the magnitude the code has: Neighbors::get projects the
\* face-local position into 3D with the coordinate on the face's axis set to
\* -1 for a face that points in the negative direction of its axis and to SIZE
\* for a face that points in the positive direction.
C25_MagnitudeMinusOneOrSize ==
    (IsGet /\ InHalo(nb_call.pos)) =>
        /\ nb_call.point # <<>>
        /\ nb_call.point[AxisOf(nb_call.face)] =
               (IF nb_call.face \in PositiveFaces THEN SIZE ELSE -1)

\* a query on the bottom face inside the chunk's face was answered from the
\* point one cell below the chunk
C25_Witness ==
    /\ IsGet
    /\ nb_call.face = "Bottom"
    /\ nb_call.pos = <<SIZE - 1, SIZE - 1>>
    /\ nb_call.point = <<SIZE - 1, -1, SIZE - 1>>
    /\ nb_call.result.kind = "Ok"

\* a point of the center chunk
InCenter(point) == \A i \in 1..3 : point[i] \in 0..(SIZE - 1)

\* C26: a lookup whose point in chunkspace falls in the center chunk returns
\* OutOfBounds; it reads no slot, asks no accessor and does not return the
\* default sample.
C26_CenterRejected ==
    (nb_call.name \in {"get", "internal_get"} /\ nb_call.point # <<>>
        /\ InCenter(nb_call.point)) =>
        /\ nb_call.result = NbOutOfBounds
        /\ nb_call.slot = NoSlot
        /\ nb_call.forwarded = <<>>
        /\ ~nb_call.read_default

\* a lookup of a point of the center chunk was rejected
C26_Witness ==
    /\ nb_call.name = "internal_get"
    /\ nb_call.point = <<0, SIZE - 1, 0>>
    /\ nb_call.result = NbOutOfBounds

IsSetNeighbor == nb_call.name = "set_neighbor"

\* the accessor of the last set_neighbor call is in no slot
AccessorNotStored == \A i \in Slots : nb_chunks[i] # Access(nb_call.pos)

\* C28: set_neighbor rejects the offset (0,0,0), the center chunk itself, with
\* OutOfBounds, whatever the position of the center chunk, and stores the
\* accessor in no slot.
C28_CenterNotRegistered ==
    (IsSetNeighbor /\ nb_call.pos = <<0, 0, 0>>) =>
        /\ nb_call.result = NbOutOfBounds
        /\ nb_call.slot = NoSlot
        /\ AccessorNotStored

\* C29: set_neighbor succeeds for each of the 26 offsets in {-1,0,1}^3 other
\* than (0,0,0), whatever the position of the center chunk, and stores the
\* accessor in the slot of that offset.
C29_NeighborRegistered ==
    (IsSetNeighbor /\ nb_call.pos \in Offsets \ {<<0, 0, 0>>}) =>
        /\ nb_call.result = NbOkUnit
        /\ nb_call.slot = SlotOfOffset(nb_call.pos)
        /\ nb_chunks[SlotOfOffset(nb_call.pos)] = Access(nb_call.pos)


\* C38: set_neighbor returns OutOfBounds and changes no slot for every offset
\* that has a component outside {-1,0,1}; it never stores the accessor in the
\* slot that belongs to a different offset.
C38_OffsetsBeyondRejected ==
    /\ (IsSetNeighbor /\ nb_call.pos \notin Offsets) =>
           /\ nb_call.result = NbOutOfBounds
           /\ nb_call.slot = NoSlot
    /\ \A o \in Offsets : nb_chunks[SlotOfOffset(o)] \in {None, Access(o)}

\* the cell of the neighbor chunk across a face from the face-local position
\* pos: on the neighbor's first layer across a face that points in the positive
\* direction, on its last layer across one that points in the negative
CellAcross(face, pos) ==
    LET layer == IF face \in PositiveFaces THEN 0 ELSE SIZE - 1
    IN  CASE AxisOf(face) = 1 -> <<layer, pos[1], pos[2]>>
          [] AxisOf(face) = 2 -> <<pos[1], layer, pos[2]>>
          [] AxisOf(face) = 3 -> <<pos[1], pos[2], layer>>

\* the chunk that shares a face with the center chunk is registered in its slot
FaceNeighborRegistered(face) ==
    nb_chunks[SlotOfOffset(normal(face))] = Access(normal(face))

\* C34: when two adjacent chunks that share a face are both solid and opaque,
\* meshing one with the other registered in its neighbor bundle emits no quad
\* on the shared face: the sampler returns, for every cell of the face, the
\* neighbor's voxel across it, and a face is emitted only if that is transparent.
C34_SharedFaceNotEmitted ==
    (IsGet /\ nb_pc = "built" /\ CoordsIn(nb_call.pos, 0, SIZE - 1)
        /\ FaceNeighborRegistered(nb_call.face)) =>
        /\ nb_call.result =
               NbOk(Sample(Access(normal(nb_call.face)),
                           CellAcross(nb_call.face, nb_call.pos)))
        /\ ~face_emitted(nb_call.result)

\* the chunk below the center chunk is registered and the sampler was asked
\* for the voxel under a cell of the bottom face
C34_Witness ==
    /\ IsGet /\ nb_pc = "built"
    /\ nb_call.face = "Bottom"
    /\ nb_call.pos = <<SIZE - 1, SIZE - 1>>
    /\ FaceNeighborRegistered("Bottom")
    /\ nb_call.forwarded = <<SIZE - 1, SIZE - 1, SIZE - 1>>
    /\ nb_call.result.kind = "Ok"

(***************************************************************************)
(* Properties of the quads.                                                *)
(***************************************************************************)
\* the two triangles of a quad on a face, over the corners 0..3 of the quad
Winding(face) ==
    CASE face \in {"Bottom", "East", "North"} -> <<0, 2, 1, 1, 2, 3>>
      [] face \in {"Top", "South", "West"} -> <<0, 1, 2, 1, 3, 2>>

\* C30: add_to_mesh appends six indices, two triangles over the four vertices
\* of the quad: the pattern 0,2,1,1,2,3 for the faces Bottom, East and North
\* and 0,1,2,1,3,2 for Top, South and West, every index offset by the idx the
\* quad was added with.
C30_FaceDependentWinding ==
    /\ Len(mesh_indices) = 6 * Len(mesh_quads)
    /\ \A k \in 1..Len(mesh_quads) :
           \A i \in 1..6 :
               mesh_indices[6 * (k - 1) + i] =
                   Winding(mesh_quads[k].quad.face)[i] + mesh_quads[k].idx

\* a quad on the bottom face and then a quad on the top face were added, the
\* second with idx 4
C30_Witness ==
    /\ Len(mesh_quads) = 2
    /\ mesh_quads[1].quad.face = "Bottom"
    /\ mesh_quads[2].quad.face = "Top"
    /\ mesh_quads[2].idx = 4
    /\ mesh_indices = <<0, 2, 1, 1, 2, 3, 4, 5, 6, 5, 7, 6>>


\* whether the bit `mask` (a power of two) is set in bits
BitSet(bits, mask) == (bits \div mask) % 2 = 1

\* the vertices 0..3 of the n-th quad added, as places in the mesh's vectors
VertexAt(n, vertex) == mesh_quads[n].idx + vertex + 1

\* C31: every quad added to a mesh carries, on each of its four vertices, the
\* packed bitfield of rotation, flip-X and flip-Y plus the texture registry
\* index; the OCCLUSION bit is set on the vertex with index 2 and on no other
\* vertex, and the rotation and flip bits never set it.
C31_VertexPayload ==
    \A n \in 1..Len(mesh_quads) : \A vertex \in 0..3 :
        LET quad_tex == mesh_quads[n].quad.quad_tex
            bits == mesh_misc_data[VertexAt(n, vertex)]
        IN  /\ bits % (ROTATION_MASK + 1) = quad_tex.rotation
            /\ BitSet(bits, FLIP_UV_X) = quad_tex.flip_uv_x
            /\ BitSet(bits, FLIP_UV_Y) = quad_tex.flip_uv_y
            /\ BitSet(bits, OCCLUSION) = (vertex = 2)
            /\ bits < 2 * OCCLUSION
            /\ mesh_textures[VertexAt(n, vertex)] = quad_tex.texture

\* two quads were added: the first with rotation 3 and both flips, the
\* second with rotation 0 and no flip
C31_Witness ==
    /\ Len(mesh_quads) = 2
    /\ mesh_quads[1].quad.quad_tex.rotation = ROTATION_MASK
    /\ mesh_quads[1].quad.quad_tex.flip_uv_x /\ mesh_quads[1].quad.quad_tex.flip_uv_y
    /\ mesh_quads[2].quad.quad_tex.rotation = 0
    /\ ~mesh_quads[2].quad.quad_tex.flip_uv_x /\ ~mesh_quads[2].quad.quad_tex.flip_uv_y
    /\ mesh_misc_data = <<15, 15, 31, 15, 0, 0, 16, 0>>


(***************************************************************************)
(* Properties of the greedy merging.                                       *)
(***************************************************************************)
\* whether a quad covers a cell
Covers(quad, cell) ==
    /\ quad.x <= cell[1] /\ cell[1] < quad.x + quad.width
    /\ quad.y <= cell[2] /\ cell[2] < quad.y + quad.height

\* the quads produced so far that cover a cell
Covering(cell) == {n \in 1..Len(gr_quads) : Covers(gr_quads[n].quad, cell)}

\* every cell of the plane is visible with the same texture
UniformPlane ==
    \E texture \in Signatures \ {Hidden} : \A cell \in PlaneCells : gr_plane[cell] = texture

\* two textures alternate along every row and every column
Checkerboard ==
    /\ \A cell \in PlaneCells : gr_plane[cell] # Hidden
    /\ \A cell \in PlaneCells, other \in PlaneCells :
           (gr_plane[cell] = gr_plane[other]) <=>
               ((cell[1] + cell[2]) % 2 = (other[1] + other[2]) % 2)

\* C32: greedy meshing of a fully uniform N x N face plane, every cell visible
\* with the same texture, produces exactly one quad, and that quad covers the
\* whole plane.
C32_UniformPlaneOneQuad ==
    (gr_pc = "done" /\ UniformPlane) =>
        /\ Len(gr_quads) = 1
        /\ gr_quads[1].quad = Quad(0, 0, PlaneSize, PlaneSize)

\* the scan of a uniform plane has ended
C32_Witness ==
    /\ gr_pc = "done"
    /\ UniformPlane
    /\ gr_cursor = PlaneSize * PlaneSize
    /\ gr_consumed = PlaneCells
    /\ Len(gr_quads) = 1

\* the cells around the plane as well as those on it
CellsAround == (-1..PlaneSize) \X (-1..PlaneSize)

\* C33: the quads produced by greedy meshing cover every visible cell exactly
\* once, no cell contributes to more than one quad, and a quad only covers
\* cells with an identical visibility/texture signature; a checkerboard of two
\* alternating textures on an N x N plane yields N*N unit quads.
C33_QuadsPartitionVisibleCells ==
    /\ \A cell \in CellsAround : Cardinality(Covering(cell)) <= 1
    /\ \A n \in 1..Len(gr_quads) : \A cell \in CellsAround :
           Covers(gr_quads[n].quad, cell) =>
               /\ cell \in PlaneCells
               /\ gr_plane[cell] # Hidden
               /\ gr_plane[cell] = gr_quads[n].signature
    /\ gr_pc = "done" =>
           \A cell \in PlaneCells :
               Cardinality(Covering(cell)) = (IF gr_plane[cell] = Hidden THEN 0 ELSE 1)
    /\ (gr_pc = "done" /\ Checkerboard) =>
           /\ Len(gr_quads) = PlaneSize * PlaneSize
           /\ \A n \in 1..Len(gr_quads) :
                  gr_quads[n].quad.width = 1 /\ gr_quads[n].quad.height = 1

\* the scan of a checkerboard has ended
C33_CheckerboardWitness ==
    /\ gr_pc = "done"
    /\ Checkerboard
    /\ Len(gr_quads) = PlaneSize * PlaneSize

\* the scan has ended on a plane where a quad was heightened into the row of
\* a cell that a later quad, of the same texture, could not widen into: the
\* cell to its right was consumed
C33_Witness ==
    /\ gr_pc = "done"
    /\ gr_plane[<<0, 0>>] = 2 /\ gr_plane[<<1, 0>>] = 1
    /\ gr_plane[<<0, 1>>] = 1 /\ gr_plane[<<1, 1>>] = 1
    /\ \E n \in 1..Len(gr_quads) : gr_quads[n].quad = Quad(1, 0, 1, 2)
    /\ \E n \in 1..Len(gr_quads) : gr_quads[n].quad = Quad(0, 1, 1, 1)


(***************************************************************************)
(* Further properties of the builder.                                      *)
(***************************************************************************)
\* the ids of the tasks in flight, one entry per task: the Build commands in
\* the command queue, the commands the workers are building or about to send
\* the result of, and the results in the result queue
InFlightQueued == {n \in 1..Len(cmd_queue) : cmd_queue[n].kind = "Build"}
InFlightAtWorker == {w \in Workers : worker_cmd[w] # NoCmd}
InFlightDone == 1..Len(mesh_queue)

\* C35: in every reachable state of the builder, each task that is in the
\* command queue, being built by a worker, or waiting in the result queue has
\* its id in the pending set, and no two such tasks have the same id.
C35_InFlightIdsPendingAndDistinct ==
    LET queued == {cmd_queue[n].id : n \in InFlightQueued}
        at_worker == {worker_cmd[w].id : w \in InFlightAtWorker}
        done == {mesh_queue[n].id : n \in InFlightDone}
    IN  /\ queued \cup at_worker \cup done \subseteq pending_tasks
        /\ Cardinality(queued \cup at_worker \cup done) =
               Cardinality(InFlightQueued) + Cardinality(InFlightAtWorker)
                   + Cardinality(InFlightDone)

\* one task waits in the result queue while a worker builds another
C35_Witness ==
    /\ Len(mesh_queue) = 1
    /\ \E w \in Workers : worker_pc[w] = "build" /\ worker_cmd[w].id # mesh_queue[1].id
    /\ Cardinality(pending_tasks) = 2


\* no build has failed: no worker has recorded one
NoBuildFailed == \A w \in Workers : failed_build[w].kind = "None"

\* C36: no Build command is discarded by shutdown: every Build command queued
\* before shutdown is called has been dequeued and executed by some worker by
\* the time shutdown returns, provided no build fails.
C36_ShutdownDiscardsNoBuild ==
    (builder_pc = "returned" /\ NoBuildFailed) =>
        /\ \A t \in 1..task_count : picks[t] = 1 /\ sends[t] = 1
        /\ \A n \in 1..Len(cmd_queue) : cmd_queue[n].kind # "Build"
        /\ \A w \in Workers : worker_cmd[w] = NoCmd

\* shutdown returned with two Build commands queued before it, one of which no
\* worker had received when shutdown was called
C36_Witness ==
    /\ builder_pc = "returned"
    /\ NoBuildFailed
    /\ task_count = 2
    /\ at_shutdown # {1, 2}
    /\ \A t \in 1..2 : sends[t] = 1


(***************************************************************************)
(* Further properties of the sessions on a chunk.                          *)
(***************************************************************************)
\* thread t is inside with_access or with_read_access
InSession(t) == thread_pc[t] \notin {"idle", "panicked"}

\* thread t is at one of the two acquisitions of its session
Acquiring(t) == thread_pc[t] \in {"wa_voxels", "wa_models", "ra_voxels", "ra_models"}

\* thread t is past the acquisition of the voxel container
PastVoxels(t) ==
    thread_pc[t] \in {"wa_models", "wa_closure", "wa_set_models", "ra_models", "ra_closure"}

\* thread t is past both acquisitions: its closure runs
InClosure(t) == thread_pc[t] \in {"wa_closure", "wa_set_models", "ra_closure"}

\* C37: with_access and with_read_access both acquire the voxel container
\* before the model container and hold both only until the closure returns, so
\* concurrent write and read sessions on the same chunk never deadlock, and a
\* session gets its access once the earlier sessions have ended.
C37_SessionsNeverDeadlock ==
    /\ \A c \in Chunks : \A t \in Threads :
           /\ voxels_held[c][t] # "none" <=> (PastVoxels(t) /\ thread_chunk[t] = c)
           /\ models_held[c][t] # "none" <=> (InClosure(t) /\ thread_chunk[t] = c)
    /\ (\E t \in Threads : InSession(t)) =>
           \E t \in Threads : InSession(t) /\ ENABLED <<ThreadStep(t)>>_vars
    /\ \A t \in Threads :
           (Acquiring(t) /\ \A u \in Threads \ {t} : ~InSession(u)) =>
               ENABLED <<ThreadStep(t)>>_vars

\* a write session waits for the voxel container while a read session, which
\* holds both containers, runs its closure
C37_Witness ==
    /\ thread_pc["t1"] = "wa_voxels"
    /\ thread_pc["t2"] = "ra_closure"
    /\ thread_chunk["t1"] = thread_chunk["t2"]
    /\ ~ENABLED <<ThreadStep("t1")>>_vars
    /\ ENABLED <<ThreadStep("t2")>>_vars

(***************************************************************************)
(* Properties of the observer events.                                      *)
(***************************************************************************)
\* floor(h / 2) of a component counted in halves, as a number
FloorOfHalves(h) == CHOOSE f \in -64..64 : 2 * f <= h /\ h < 2 * f + 2

\* the chunk a translation lies in: the c with SIZE * c <= floor < SIZE * (c + 1)
ChunkAt(translation) ==
    [i \in 1..3 |-> CHOOSE c \in -4..4 :
        /\ SIZE * c <= FloorOfHalves(translation[i])
        /\ FloorOfHalves(translation[i]) < SIZE * (c + 1)]

\* the last run of dispatch_move_events found a LastPosition on the observer
RanWithLastPosition == ob_run.ran /\ ob_run.before.some

\* the observer had moved since the run before and is in another chunk than
\* the recorded one
CrossedBorder ==
    /\ ob_run.translation # ob_run.before.ws_pos
    /\ ChunkAt(ob_run.translation) # ob_run.before.chunk_pos

\* C39: for an observer with a LastPosition, a run of dispatch_move_events
\* triggers CrossChunkBorder (new = false, old_chunk = the recorded chunk,
\* new_chunk = the current chunk) exactly when the translation changed since
\* the last run and the current chunk differs from the recorded one; after
\* the run the recorded translation and chunk are the current ones, a run
\* that follows a run without a move in between triggers nothing, and every
\* crossing reported starts in the chunk the report before it ended in.
C39_CrossingReportedOnce ==
    RanWithLastPosition =>
        /\ CrossedBorder =>
               ob_run.triggered =
                   <<[new |-> FALSE, old_chunk |-> ob_run.before.chunk_pos,
                      new_chunk |-> ChunkAt(ob_run.translation)]>>
        /\ ~CrossedBorder => ob_run.triggered = <<>>
        /\ ob_last.some
        /\ ob_last.ws_pos = ob_translation
        /\ ob_last.chunk_pos = ChunkAt(ob_translation)
        /\ ob_run.again => ob_run.triggered = <<>>
        /\ (ob_run.triggered # <<>> /\ ob_run.any_reported) =>
               /\ ob_run.triggered[1].old_chunk = ob_run.reported.new_chunk
               /\ ob_run.triggered[1].new_chunk # ob_run.reported.new_chunk

\* a run reported the crossing from chunk 0 to chunk 1 after an earlier
\* report, and the commands of the run are still queued
C39_Witness ==
    /\ RanWithLastPosition
    /\ CrossedBorder
    /\ ob_run.any_reported
    /\ ob_run.triggered # <<>>
    /\ ob_run.triggered[1].new_chunk = <<1, 0, 0>>
    /\ Len(ob_cmds) = 1

\* the pairs of a chunk and an owned batch with the chunk in the first set of
\* the batch and not in the second
ChunksOnlyIn(first, second) ==
    {pair \in (UNION {first[b] : b \in Batches}) \X ob_owned :
        pair[1] \in first[pair[2]] \ second[pair[2]]}

\* the chunks the last run of update_observer_batches dropped from a batch
Dropped == ChunksOnlyIn(ob_update.before, ob_chunks)
\* the chunks it newly added to a batch
NewlyAdded == ChunksOnlyIn(ob_chunks, ob_update.before)

\* C40: BatchMembership holds exactly the pairs of a batch and a chunk of its
\* chunk set; a run of update_observer_batches calls membership.remove for
\* exactly the chunks dropped from an owned batch and membership.add for
\* exactly the chunks newly added to it, leaves the other batches alone, and
\* triggers UpdateCachedChunkFlags if and only if a chunk was added or
\* removed, with exactly those chunks.
C40_MembershipInStep ==
    /\ ob_membership = {pair \in (UNION {ob_chunks[b] : b \in Batches}) \X Batches :
                          pair[1] \in ob_chunks[pair[2]]}
    /\ ob_update.ran =>
        /\ ob_update.removed = Dropped
        /\ ob_update.added = NewlyAdded
        /\ \A b \in Batches \ ob_owned : ob_chunks[b] = ob_update.before[b]
        /\ ob_update.sent <=> Dropped \cup NewlyAdded # {}
        /\ ob_update.sent =>
               ob_update.flags = {pair[1] : pair \in Dropped \cup NewlyAdded}
        /\ (ob_cmds # <<>> /\ ob_cmds[Len(ob_cmds)].cmd = "flags") =>
               /\ ob_update.sent
               /\ ob_cmds[Len(ob_cmds)].flags = ob_update.flags

\* a crossing made update_observer_batches drop a chunk from a batch, add
\* another and keep a third, and the trigger of UpdateCachedChunkFlags is
\* queued
C40_Witness ==
    /\ ob_update.ran
    /\ ~ob_update.event.new
    /\ ob_owned = Batches
    /\ Dropped # {}
    /\ NewlyAdded # {}
    /\ \E b \in ob_owned : ob_chunks[b] \cap ob_update.before[b] # {}
    /\ ob_cmds # <<>>
    /\ ob_cmds[1].cmd = "flags"

====
